---- MODULE Spec2Model ----
(***************************************************************************)
(* Model of dhrender.c, the test program of the Delilah Scanline Renderer: *)
(* the two-pass compiler of the scene script (first_pass, second_pass),    *)
(* the declaration store (begin_data, declare_vert, declare_tri,           *)
(* check_decl), the literal parser (parseInt) and main.                    *)
(*                                                                         *)
(* The Shastina parser is outside the repository: it is modelled as a      *)
(* source that yields one entity per snparser_read call.  The entities a   *)
(* script holds are discovered while pass 1 reads them and are recorded in *)
(* `script`; after snsource_rewind pass 2 reads the recorded entities      *)
(* again, in the same order.                                               *)
(***************************************************************************)
EXTENDS Integers, Sequences, FiniteSets, TLC

(***************************************************************************)
(* Program constants (dhrender.c, lines 32-80).                            *)
(***************************************************************************)
ERR_OK == 0
ERR_NOSIG == 1
ERR_HEADC == 2
ERR_HEADR == 3
ERR_HEADS == 4
ERR_DIM == 5
ERR_SHADE == 6
ERR_NODIM == 7
ERR_NOSHA == 8
ERR_STRAY == 9
ERR_MANYV == 10
ERR_MANYT == 11
ERR_SYNC == 12
ERR_ETYPE == 13
ERR_BADOP == 14
ERR_STREM == 15
ERR_UNDER == 16
ERR_OVER == 17
ERR_SYNTX == 18
ERR_ZNEG == 19
ERR_VIDX == 20
ERR_NUMRL == 21
ERR_RGBL == 22

SHADE_FLAT == 1
SHADE_INTER == 2

NTYPE_UNDEF == 0
NTYPE_INT == 1
NTYPE_RGB == 2

MAX_VERTEX == 16384
MAX_TRIS == 16384
MAX_ISTACK == 32

INT32_MAX == 2147483647
INT32_MIN == -INT32_MAX - 1
\* limits.h, for a long of 32 bits (the ILP32 and LLP64 data models)
LONG_MAX == 2147483647
RGB_MAX == 16777215

(***************************************************************************)
(* Constants of the libraries the program is built on (shastina.h,         *)
(* sophistry.h); the program uses them by name only.                       *)
(***************************************************************************)
SNENTITY_EOF == 0
SNENTITY_STRING == 1
SNENTITY_BEGIN_META == 3
SNENTITY_END_META == 4
SNENTITY_META_TOKEN == 5
SNENTITY_META_STRING == 6
SNENTITY_NUMERIC == 7
SNENTITY_VARIABLE == 8
SNENTITY_OPERATION == 15
SNSTRING_QUOTED == 1
SNSTRING_CURLY == 2
SNERR_IOERR == -1
SNERR_EOF == -2
SNERR_TRAILER == -26
SPH_IMAGE_MAXDIM == 16384

(***************************************************************************)
(* Bounds of the model.                                                    *)
(***************************************************************************)
\* body entities of a script of the "mixed" class
MaxBody == 2
\* body entities of a script of the "signed" class
MaxSigned == 5
\* operations of a script of the "grouped" class
MaxGroups == 3
\* entities before the repeated entity in a script of the "flood" class
MaxPre == 1
\* repetitions of a literal in a script of the "flood" class
MaxFlood == 34
\* a script of the "flood" class ends within this many entities of its
\* start or of the limit of 16384 operations
EndSlack == 2
\* parseInt on its own is given the integers within this distance of
\* INT32_MIN, of zero, of INT32_MAX and of the powers of ten
ParseSpan == 12

\* the longest token built from TokChars that parseInt is stepped through
MaxTok == 4

\* the longest body of a script of the "header" class
MaxHdrBody == 1

\* statements of a script of the "ordered" class
MaxOrdered == 4

(***************************************************************************)
(* Characters.  A C string is a sequence of one-character strings; Ord is  *)
(* the ASCII code the comparisons of the program work on.                  *)
(***************************************************************************)
Digits == <<"0", "1", "2", "3", "4", "5", "6", "7", "8", "9">>

Ord(c) ==
  CASE c = "+" -> 43
    [] c = "-" -> 45
    [] c = "0" -> 48
    [] c = "1" -> 49
    [] c = "2" -> 50
    [] c = "3" -> 51
    [] c = "4" -> 52
    [] c = "5" -> 53
    [] c = "6" -> 54
    [] c = "7" -> 55
    [] c = "8" -> 56
    [] c = "9" -> 57
    [] c = "A" -> 65
    [] c = "B" -> 66
    [] c = "C" -> 67
    [] c = "D" -> 68
    [] c = "E" -> 69
    [] c = "F" -> 70
    [] c = "G" -> 71
    [] c = "a" -> 97
    [] c = "b" -> 98
    [] c = "c" -> 99
    [] c = "d" -> 100
    [] c = "e" -> 101
    [] c = "f" -> 102
    [] c = "g" -> 103
    [] c = "x" -> 120
    [] OTHER -> 122

(***************************************************************************)
(* parseInt (dhrender.c, 1514-1594).                                       *)
(***************************************************************************)
\* the guard of the multiplication by ten (line 1559)
MulFits(result) == result <= INT32_MAX \div 10

\* the guard of the addition of the digit (line 1568)
AddFitsNoDigit(result, d) == result <= INT32_MAX

AddFits(result, d) == result <= INT32_MAX - d

\* the sign applied at the end (lines 1583-1585)
ApplySignDropped(negflag, result) == result

ApplySign(negflag, result) == IF negflag THEN -result ELSE result

\* The digit loop from index i on with accumulator `result`; -1 is the
\* failed status (the accumulator itself is never negative).
RECURSIVE ParseDigits(_, _, _)
ParseDigits(pstr, i, result) ==
  IF i > Len(pstr) THEN result
  ELSE IF Ord(pstr[i]) < Ord("0") \/ Ord(pstr[i]) > Ord("9") THEN -1
  ELSE LET d == Ord(pstr[i]) - Ord("0") IN
       IF ~MulFits(result) THEN -1
       ELSE IF ~AddFits(result * 10, d) THEN -1
       ELSE ParseDigits(pstr, i + 1, result * 10 + d)

\* parseInt(pstr, &v): [ok |-> status, v |-> value written when ok]
parseIntAlways(pstr) == [ok |-> TRUE, v |-> 0]

parseInt(pstr) ==
  LET signed == Len(pstr) > 0 /\ (pstr[1] = "+" \/ pstr[1] = "-")
      negflag == Len(pstr) > 0 /\ pstr[1] = "-"
      first == IF signed THEN 2 ELSE 1
      mag == IF first > Len(pstr) THEN -1 ELSE ParseDigits(pstr, first, 0)
  IN IF mag < 0 THEN [ok |-> FALSE, v |-> 0]
     ELSE [ok |-> TRUE, v |-> ApplySign(negflag, mag)]

(***************************************************************************)
(* Decimal formatting of an integer, as printf("%d") writes it: a minus    *)
(* sign for a negative value, then the digits without leading zeros.       *)
(***************************************************************************)
RECURSIVE FormatNat(_)
FormatNat(n) ==
  IF n < 10 THEN <<Digits[n + 1]>>
  ELSE Append(FormatNat(n \div 10), Digits[(n % 10) + 1])

\* the digits of n <= 0, computed on the negative side so that INT32_MIN
\* is never negated; (n + 9) \div 10 is n / 10 rounded toward zero
RECURSIVE FormatNeg(_)
FormatNeg(n) ==
  LET q == (n + 9) \div 10
      d == q * 10 - n
  IN IF q = 0 THEN <<Digits[d + 1]>> ELSE Append(FormatNeg(q), Digits[d + 1])

FormatInt(n) == IF n < 0 THEN <<"-">> \o FormatNeg(n) ELSE FormatNat(n)

(***************************************************************************)
(* Entities, as snparser_read fills SNENTITY: the status (the entity type, *)
(* zero at the end-of-input marker, negative for a parser error), pKey,    *)
(* str_type and pValue.                                                     *)
(***************************************************************************)
Ent(status, pKey, str_type, pValue) ==
  [status |-> status, pKey |-> pKey, str_type |-> str_type, pValue |-> pValue]

K_dhrender == <<"d", "h", "r", "e", "n", "d", "e", "r">>
K_dim == <<"d", "i", "m">>
K_shade == <<"s", "h", "a", "d", "e">>
K_vertex == <<"v", "e", "r", "t", "e", "x">>
K_triangle == <<"t", "r", "i", "a", "n", "g", "l", "e">>
K_v == <<"v">>
K_t == <<"t">>

E_EOF == Ent(SNENTITY_EOF, <<>>, 0, <<>>)
E_ERR == Ent(SNERR_EOF, <<>>, 0, <<>>)
E_BEGIN == Ent(SNENTITY_BEGIN_META, <<>>, 0, <<>>)
E_END == Ent(SNENTITY_END_META, <<>>, 0, <<>>)
E_Tok(k) == Ent(SNENTITY_META_TOKEN, k, 0, <<>>)
E_MStr == Ent(SNENTITY_META_STRING, <<>>, SNSTRING_QUOTED, <<"a">>)
E_Num(k) == Ent(SNENTITY_NUMERIC, k, 0, <<>>)
E_Str(t, k, v) == Ent(SNENTITY_STRING, k, t, v)
E_Op(k) == Ent(SNENTITY_OPERATION, k, 0, <<>>)
E_Var == Ent(SNENTITY_VARIABLE, <<"a">>, 0, <<>>)

E_Num0 == E_Num(<<"0">>)
E_Col == E_Str(SNSTRING_CURLY, <<>>, <<"f", "f", "0", "0", "0", "0">>)
E_OpV == E_Op(K_v)
E_OpT == E_Op(K_t)

IsMetaNoString(e) ==
  e.status \in {SNENTITY_BEGIN_META, SNENTITY_END_META, SNENTITY_META_TOKEN}

IsMeta(e) ==
  e.status \in {SNENTITY_BEGIN_META, SNENTITY_END_META,
                SNENTITY_META_TOKEN, SNENTITY_META_STRING}

\* The entities a script is drawn from.
CoreBody == {E_Num0, E_Col, E_OpV, E_OpT}

SignedBody == CoreBody \cup {E_Num(<<"-", "1">>), E_Num(<<"1">>)}

ExoticBody ==
  { E_Num(<<"-", "1">>), E_Num(<<"1">>), E_Num(<<"1", "x">>),
    E_Num(<<"2", "1", "4", "7", "4", "8", "3", "6", "4", "8">>),
    E_Str(SNSTRING_CURLY, <<>>, <<"0", "0", "A", "c", "9", "F">>),
    E_Str(SNSTRING_CURLY, <<>>, <<"f", "f", "0", "0", "0">>),
    E_Str(SNSTRING_CURLY, <<>>, <<"g", "g", "0", "0", "0", "0">>),
    E_Str(SNSTRING_CURLY, <<"x">>, <<"f", "f", "0", "0", "0", "0">>),
    E_Str(SNSTRING_QUOTED, <<>>, <<"f", "f", "0", "0", "0", "0">>),
    E_Op(<<"x">>), E_Var,
    E_BEGIN, E_END, E_Tok(K_dim), E_MStr }

HeaderDraw ==
  { E_BEGIN, E_END, E_MStr, E_Tok(K_dhrender), E_Tok(K_dim), E_Tok(K_shade),
    E_Tok(K_vertex), E_Tok(K_triangle), E_Tok(<<"2">>), E_Tok(<<"0">>),
    E_Tok(<<"1", "6", "3", "8", "5">>), E_Tok(<<"x">>) }

\* the header entities of the "header" class: the dimensions at both ends
\* of their range as well, and a number one above INT32_MAX
WideHeaderDraw ==
  HeaderDraw
  \cup {E_Tok(<<"1">>), E_Tok(<<"1", "6", "3", "8", "4">>),
        E_Tok(<<"2", "1", "4", "7", "4", "8", "3", "6", "4", "8">>)}

\* The header of the scripts of the "signed", "grouped" and "flood" classes.
CanonHeader(mode) ==
  << E_BEGIN, E_Tok(K_dhrender), E_END,
     E_BEGIN, E_Tok(K_dim), E_Tok(<<"2">>), E_Tok(<<"2">>), E_END,
     E_BEGIN, E_Tok(K_shade), E_Tok(mode), E_END >>

CanonLen == Len(CanonHeader(K_vertex))

(***************************************************************************)
(* The script is kept run-length encoded: a sequence of runs [e, n], the   *)
(* entity e repeated n times, adjacent runs holding different entities.    *)
(***************************************************************************)
\* the number of entities in the first k runs
RECURSIVE LenTo(_, _)
LenTo(s, k) == IF k = 0 THEN 0 ELSE s[k].n + LenTo(s, k - 1)

ScriptLen(s) == LenTo(s, Len(s))

RECURSIVE RunAt(_, _, _)
RunAt(s, r, p) == IF p <= s[r].n THEN s[r].e ELSE RunAt(s, r + 1, p - s[r].n)

\* the p-th entity of the script, p in 1..ScriptLen(s)
EntityAt(s, p) == RunAt(s, 1, p)

AppendEnt(s, e) ==
  IF s /= <<>> /\ s[Len(s)].e = e
  THEN [s EXCEPT ![Len(s)].n = @ + 1]
  ELSE Append(s, [e |-> e, n |-> 1])

\* the number of entities of the script that are in the set S
RECURSIVE CountTo(_, _, _)
CountTo(s, S, k) ==
  IF k = 0 THEN 0
  ELSE (IF s[k].e \in S THEN s[k].n ELSE 0) + CountTo(s, S, k - 1)

CountIn(s, S) == CountTo(s, S, Len(s))

\* the number of entities that precede the body (the leading metacommand
\* entities)
\* the index of the first run from k on that holds no metacommand entity,
\* Len(s) + 1 when there is none
RECURSIVE FirstBody(_, _)
FirstBody(s, k) == IF k > Len(s) \/ ~IsMeta(s[k].e) THEN k ELSE FirstBody(s, k + 1)

HeaderLen(s) == LenTo(s, FirstBody(s, 1) - 1)

BodyLen(s) == ScriptLen(s) - HeaderLen(s)

IsLiteral(e) == e.status \in {SNENTITY_NUMERIC, SNENTITY_STRING}
LastRun(s) == IF s = <<>> THEN 0 ELSE s[Len(s)].n

\* the body of a script: its runs from the first entity that is no
\* metacommand entity
BodyOf(s) == SubSeq(s, FirstBody(s, 1), Len(s))

(***************************************************************************)
(* State.                                                                  *)
(***************************************************************************)
VARIABLES
  pc,         \* the position of the program
  ret,        \* the status the last pass returned
  exitcode,   \* the value main returns, -1 while it runs
  diag,       \* the diagnostics printed on stderr
  src_kind,   \* the class of script the source holds
  src_rep,    \* the repeated entity of a "flood" script
  linemode,   \* how snparser_count answers
  script,     \* the entities of the script read so far, run-length encoded
  pos,        \* the number of entities read in the current pass
  ent,        \* SNENTITY ent: the entity read last
  si,         \* SCRIPT_INFO si of main, *psi of first_pass
  perr,       \* int ecode of main, *perr of the passes
  pline,      \* long lnum of main, *pline of the passes
  fp_i,       \* int i of first_pass: the index of the dim argument read
  st,         \* STACK_NODE st[MAX_ISTACK] of second_pass
  st_count,   \* int st_count of second_pass
  m_init, m_vcount, m_tcount, m_vwrite, m_twrite, m_ready, m_pv, m_pt,
  dv_ok,      \* the number of declare_vert calls that returned non-zero
  dt_ok,      \* the number of declare_tri calls that returned non-zero
  pi_n,       \* the integer formatted for parseInt on its own
  pi_in,      \* the token handed to parseInt on its own
  pi_out,     \* what parseInt returned for it
  tk_negflag, \* int negflag of parseInt, run statement by statement
  tk_result,  \* int32_t result of parseInt
  tk_status,  \* int status of parseInt
  tk_i        \* the index in pi_in that pstr stands at

mainVars == <<ret, exitcode, diag>>
srcVars == <<src_kind, src_rep, linemode>>
fpVars == <<si, perr, pline, fp_i>>
stackVars == <<st, st_count>>
storeVars == <<m_init, m_vcount, m_tcount, m_vwrite, m_twrite, m_ready, m_pv, m_pt,
               dv_ok, dt_ok>>
piVars == <<pi_n, pi_in, pi_out>>
tkVars == <<tk_negflag, tk_result, tk_status, tk_i>>
vars == <<pc, mainVars, srcVars, script, pos, ent, fpVars, stackVars, storeVars, piVars,
          tkVars>>

ZeroInfo == [w |-> 0, h |-> 0, shade |-> 0, vcount |-> 0, tcount |-> 0]
UndefNode == [ntype |-> NTYPE_UNDEF, val |-> 0]
EmptyStack == [k \in 0 .. MAX_ISTACK - 1 |-> UndefNode]
NoArray == <<>>

\* what snparser_count may answer: the number of the line, LONG_MAX when
\* the count has overflowed, a negative value
LineModes(kind) == IF kind = "lines" THEN {"count", "max", "neg"} ELSE {"count"}

InitWith(kinds, reps) ==
  /\ pc = "main_start"
  /\ ret = 1
  /\ exitcode = -1
  /\ diag = <<>>
  /\ src_kind \in kinds
  /\ src_rep \in reps
  /\ linemode \in LineModes(src_kind)
  /\ script = <<>>
  /\ pos = 0
  /\ ent = E_EOF
  /\ si = ZeroInfo
  /\ perr = ERR_OK
  /\ pline = 0
  /\ fp_i = 0
  /\ st = EmptyStack
  /\ st_count = 0
  /\ m_init = 0
  /\ m_vcount = 0
  /\ m_tcount = 0
  /\ m_vwrite = 0
  /\ m_twrite = 0
  /\ m_ready = 0
  /\ m_pv = NoArray
  /\ m_pt = NoArray
  /\ dv_ok = 0
  /\ dt_ok = 0
  /\ pi_n = 0
  /\ pi_in = <<>>
  /\ pi_out = [ok |-> FALSE, v |-> 0]
  /\ tk_negflag = 0
  /\ tk_result = 0
  /\ tk_status = 1
  /\ tk_i = 1

Init == InitWith({"mixed"}, {E_EOF})

(***************************************************************************)
(* The source.  Draw is the set of entities the next snparser_read of pass *)
(* 1 may yield, given the entities read so far; it defines the scripts of  *)
(* each class:                                                             *)
(*   "mixed"    any header entities, then up to MaxBody body entities of   *)
(*              any kind; the parser and the source may fail;              *)
(*   "header"   any header entities, the dimensions 1 and 16384 among them, *)
(*              then up to MaxHdrBody body entities; the parser and the    *)
(*              source may fail;                                           *)
(*   "lines"    the scripts of the "header" class, with a parser whose     *)
(*              line count may be right, LONG_MAX or negative;             *)
(*   "signed"   the canonical header, then up to MaxSigned integer and     *)
(*              color literals and v and t operations in any order;        *)
(*   "grouped"  the canonical header, then up to MaxGroups statements      *)
(*              0 0 0 v, 0 0 0 {ff0000} v, 0 0 0 t, 0 0 0 {ff0000} t,      *)
(*              or a prefix of such a body;                                *)
(*   "flood"    the canonical header, then up to MaxPre entities and one   *)
(*              entity repeated;                                           *)
(*   "literal"  the canonical header, then fewer than MaxFlood copies of   *)
(*              one valid literal and at most one more literal, valid or   *)
(*              not;                                                       *)
(*   "ordered"  the canonical header, then up to MaxOrdered statements of  *)
(*              three numbers, an optional color and v or t, the numbers   *)
(*              of each statement different from those of the others, or   *)
(*              a prefix of such a body; the source may fail.              *)
(***************************************************************************)
CanonDraw(p) ==
  IF p = CanonLen - 1 THEN {E_Tok(K_vertex), E_Tok(K_triangle)}
  ELSE {CanonHeader(K_vertex)[p]}

RepLimit == IF src_rep = E_OpT THEN MAX_TRIS ELSE MAX_VERTEX

\* the number of entities after the last operation of the body
\* the index of the last run up to k that holds an operation, 0 when there
\* is none
RECURSIVE LastOp(_, _)
LastOp(b, k) ==
  IF k = 0 \/ b[k].e.status = SNENTITY_OPERATION THEN k ELSE LastOp(b, k - 1)

OpenLen(b) == LenTo(b, Len(b)) - LenTo(b, LastOp(b, Len(b)))

GroupDraw(b) ==
  IF CountIn(b, {E_OpV, E_OpT}) >= MaxGroups THEN {}
  ELSE IF OpenLen(b) < 3 THEN {E_Num0}
  ELSE IF OpenLen(b) = 3 THEN {E_Col, E_OpV, E_OpT}
  ELSE {E_OpV, E_OpT}

FloodDraw(b) ==
  (IF IsLiteral(src_rep) \/ ScriptLen(b) <= EndSlack
      \/ CountIn(b, {src_rep}) >= RepLimit - EndSlack
   THEN {E_EOF} ELSE {})
  \cup (IF ScriptLen(b) < MaxPre THEN CoreBody ELSE {})
  \cup (IF IsLiteral(src_rep) => CountIn(b, {src_rep}) < MaxFlood
        THEN {src_rep} ELSE {})

\* the three numbers of the k-th statement of a script of the "ordered"
\* class
OrderedOperands(k) ==
  CASE k = 1 -> <<"0", "0", "0">>
    [] k = 2 -> <<"1", "0", "0">>
    [] k = 3 -> <<"0", "1", "0">>
    [] k = 4 -> <<"0", "1", "2">>
    [] OTHER -> <<"2", "1", "0">>

OrderedDraw(b) ==
  LET k == CountIn(b, {E_OpV, E_OpT}) + 1 IN
  IF k > MaxOrdered THEN {}
  ELSE IF OpenLen(b) < 3 THEN {E_Num(<<OrderedOperands(k)[OpenLen(b) + 1]>>)}
  ELSE IF OpenLen(b) = 3 THEN {E_Col, E_OpV, E_OpT}
  ELSE {E_OpV, E_OpT}

\* the literals that may end the body of a script of the "literal" class
LiteralTail ==
  {e \in CoreBody \cup ExoticBody : IsLiteral(e)}
  \cup { E_Str(SNSTRING_CURLY, <<>>, <<"f", "f", "f", "f", "f", "f">>),
         E_Str(SNSTRING_CURLY, <<>>, <<"f", "f", "0", "0", "0", "0", "0">>),
         E_Str(SNSTRING_CURLY, <<>>, <<>>),
         E_Str(SNSTRING_CURLY, <<>>, <<"0", "0", "0", "0", "0", "G">>),
         E_Str(SNSTRING_CURLY, <<"x">>, <<"f", "f", "0", "0", "0">>),
         E_Num(<<>>), E_Num(<<"+", "1">>) }

LiteralDraw(b) ==
  IF (b = <<>> \/ (Len(b) = 1 /\ b[1].e = src_rep)) /\ ScriptLen(b) < MaxFlood
  THEN LiteralTail
  ELSE {}

Draw ==
  LET body == BodyOf(script) IN
  IF src_kind = "mixed"
  THEN {E_EOF, E_ERR}
       \cup (IF body = <<>> THEN HeaderDraw ELSE {})
       \cup (IF ScriptLen(body) < MaxBody THEN CoreBody \cup ExoticBody ELSE {})
  ELSE IF src_kind \in {"header", "lines"}
  THEN {E_EOF, E_ERR}
       \cup (IF body = <<>> THEN WideHeaderDraw ELSE {})
       \cup (IF ScriptLen(body) < MaxHdrBody THEN CoreBody ELSE {})
  ELSE IF ScriptLen(script) < CanonLen
  THEN CanonDraw(ScriptLen(script) + 1)
  ELSE CASE src_kind = "signed" ->
              {E_EOF} \cup (IF ScriptLen(body) < MaxSigned THEN SignedBody ELSE {})
         [] src_kind = "grouped" -> {E_EOF} \cup GroupDraw(body)
         [] src_kind = "literal" -> {E_EOF} \cup LiteralDraw(body)
         [] src_kind = "ordered" -> {E_EOF} \cup OrderedDraw(body)
         [] OTHER -> FloodDraw(body)

\* whether an I/O call of the source (snsource_rewind, snsource_consume)
\* may fail
MayFail ==
  IF src_kind \in {"mixed", "header", "ordered", "lines"} THEN {TRUE, FALSE} ELSE {FALSE}

\* snparser_read in pass 1: the source yields an entity not seen before
ReadNew(e) ==
  /\ e \in Draw
  /\ script' = AppendEnt(script, e)
  /\ pos' = pos + 1
  /\ ent' = e

\* snparser_read in pass 2: the source yields the entity it yielded in pass 1
ReadAgainStuck ==
  /\ ent' = EntityAt(script, pos + 1)
  /\ pos' = pos
  /\ script' = script

ReadAgain ==
  /\ ent' = EntityAt(script, pos + 1)
  /\ pos' = pos + 1
  /\ script' = script

\* snparser_count(pr) after p entities have been read
ParserCount(p) ==
  CASE linemode = "count" -> p
    [] linemode = "max" -> LONG_MAX
    [] OTHER -> -1

\* the line number fix at the end of each pass (858-860, 1352-1354)
AdjustLineNoMax(l) == IF l < 0 THEN 0 ELSE l

AdjustLine(l) == IF l < 0 \/ l >= LONG_MAX THEN 0 ELSE l

(***************************************************************************)
(* main, up to the first pass (1601-1667).                                 *)
(***************************************************************************)
\* the value main returns for its status (1739-1744)
ExitStatusKept(status) == status

ExitStatus(status) == IF status /= 0 THEN 0 ELSE 1

Exit(code, msg) ==
  /\ pc' = "exit"
  /\ exitcode' = code
  /\ diag' = diag \o msg

MainStart ==
  /\ pc = "main_start"
  /\ \E argc_ok \in BOOLEAN, open_ok \in BOOLEAN :
       IF ~argc_ok
       THEN Exit(ExitStatus(0), <<[kind |-> "args", err |-> 0, line |-> 0]>>) /\ ret' = 0
       ELSE IF ~open_ok
       THEN Exit(ExitStatus(0), <<[kind |-> "open", err |-> 0, line |-> 0]>>) /\ ret' = 0
       ELSE pc' = "fp_begin" /\ UNCHANGED <<ret, exitcode, diag>>
  /\ UNCHANGED <<srcVars, script, pos, ent, fpVars, stackVars, storeVars, piVars, tkVars>>

(***************************************************************************)
(* first_pass (549-873).  Each action is one snparser_read and the code    *)
(* that follows it up to the next read.                                    *)
(***************************************************************************)
\* a failure: the rest of the function is skipped down to 857-872
FPFailKeepsInfo(code, line) ==
  /\ perr' = code
  /\ pline' = AdjustLine(line)
  /\ si' = si
  /\ ret' = 0
  /\ pc' = "main_fp_done"
  /\ fp_i' = fp_i

FPFail(code, line) ==
  /\ perr' = code
  /\ pline' = AdjustLine(line)
  /\ si' = ZeroInfo
  /\ ret' = 0
  /\ pc' = "main_fp_done"
  /\ fp_i' = fp_i

FPGoto(next) ==
  /\ pc' = next
  /\ UNCHANGED <<si, perr, pline, fp_i, ret>>

FP_Begin ==
  /\ pc = "fp_begin"
  /\ \E failed \in MayFail :
       IF failed
       THEN /\ perr' = SNERR_IOERR
            /\ pline' = 0
            /\ si' = ZeroInfo
            /\ ret' = 0
            /\ pc' = "main_fp_done"
       ELSE /\ perr' = ERR_OK
            /\ pline' = 0
            /\ si' = ZeroInfo
            /\ ret' = ret
            /\ pc' = "fp_sig1"
  /\ pos' = 0
  /\ UNCHANGED <<exitcode, diag, srcVars, script, ent, fp_i, stackVars, storeVars, piVars, tkVars>>

\* the test of the signature token (599-606)
SigTokenAny(e) == e.status = SNENTITY_META_TOKEN

SigToken(e) == e.status = SNENTITY_META_TOKEN /\ e.pKey = K_dhrender

FP_Sig1 ==
  /\ pc = "fp_sig1"
  /\ \E e \in Draw :
       /\ ReadNew(e)
       /\ IF e.status /= SNENTITY_BEGIN_META
          THEN FPFail(ERR_NOSIG, pline)
          ELSE FPGoto("fp_sig2")
  /\ UNCHANGED <<exitcode, diag, srcVars, stackVars, storeVars, piVars, tkVars>>

FP_Sig2 ==
  /\ pc = "fp_sig2"
  /\ \E e \in Draw :
       /\ ReadNew(e)
       /\ IF ~SigToken(e)
          THEN FPFail(ERR_NOSIG, pline)
          ELSE FPGoto("fp_sig3")
  /\ UNCHANGED <<exitcode, diag, srcVars, stackVars, storeVars, piVars, tkVars>>

FP_Sig3 ==
  /\ pc = "fp_sig3"
  /\ \E e \in Draw :
       /\ ReadNew(e)
       /\ IF e.status /= SNENTITY_END_META
          THEN FPFail(ERR_NOSIG, pline)
          ELSE /\ si' = [si EXCEPT !.w = 0, !.h = 0, !.shade = 0]
               /\ pc' = "fp_hdr"
               /\ UNCHANGED <<perr, pline, fp_i, ret>>
  /\ UNCHANGED <<exitcode, diag, srcVars, stackVars, storeVars, piVars, tkVars>>

\* the counter guard of the counting scan (812, 822)
BelowMaxOff(count, max) == count <= max

BelowMax(count, max) == count < max

\* whether the counting scan counts the entity under the key k (809-810, 820)
CountsAsAny(e, k) == e.status = SNENTITY_OPERATION

CountsAsOrNumber(e, k) ==
  \/ (e.status = SNENTITY_OPERATION /\ e.pKey = k)
  \/ (e.status = SNENTITY_NUMERIC /\ k = K_v)

CountsAs(e, k) == e.status = SNENTITY_OPERATION /\ e.pKey = k

\* One iteration of the counting scan (796-842) on the entity e, read as the
\* p-th, with the counts of `info`.
BodyStep(e, p, info) ==
  IF e.status > 0
  THEN IF IsMeta(e)
       THEN FPFail(ERR_STRAY, ParserCount(p))
       ELSE IF CountsAs(e, K_v)
       THEN IF BelowMax(info.vcount, MAX_VERTEX)
            THEN /\ si' = [info EXCEPT !.vcount = @ + 1]
                 /\ pc' = "fp_body"
                 /\ UNCHANGED <<perr, pline, fp_i, ret>>
            ELSE FPFail(ERR_MANYV, ParserCount(p))
       ELSE IF CountsAs(e, K_t)
       THEN IF BelowMax(info.tcount, MAX_TRIS)
            THEN /\ si' = [info EXCEPT !.tcount = @ + 1]
                 /\ pc' = "fp_body"
                 /\ UNCHANGED <<perr, pline, fp_i, ret>>
            ELSE FPFail(ERR_MANYT, ParserCount(p))
       ELSE /\ si' = info
            /\ pc' = "fp_body"
            /\ UNCHANGED <<perr, pline, fp_i, ret>>
  ELSE IF e.status < 0
  THEN FPFail(e.status, ParserCount(p))
  ELSE /\ si' = info
       /\ pc' = "fp_consume"
       /\ UNCHANGED <<perr, pline, fp_i, ret>>

\* the test of a header read for an error of the parser (632, 658, 715,
\* 749, 766)
ReadFailedNever(e) == FALSE

ReadFailed(e) == e.status < 0

\* the tests after the header loop (775, 779)
DimMissingNever(info) == FALSE

DimMissing(info) == info.w < 1 \/ info.h < 1

ShadeMissing(info) == info.shade = 0

\* The read at the head of the header loop (625-627); when the entity opens
\* no metacommand the loop is left (766-788) and the counting scan starts
\* on that entity.
FP_Hdr ==
  /\ pc = "fp_hdr"
  /\ \E e \in Draw :
       /\ ReadNew(e)
       /\ IF e.status = SNENTITY_BEGIN_META
          THEN FPGoto("fp_cmd")
          ELSE IF ReadFailed(e)
          THEN FPFail(e.status, ParserCount(pos + 1))
          ELSE IF DimMissing(si)
          THEN FPFail(ERR_NODIM, pline)
          ELSE IF ShadeMissing(si)
          THEN FPFail(ERR_NOSHA, pline)
          ELSE BodyStep(e, pos + 1, [si EXCEPT !.tcount = 0, !.vcount = 0])
  /\ UNCHANGED <<exitcode, diag, srcVars, stackVars, storeVars, piVars, tkVars>>

\* whether dim has been given (646), whether shade has been given (706)
DimSeenNever(info) == FALSE

DimSeen(info) == info.w > 0 \/ info.h > 0

ShadeSeenAfterDim(info) == info.shade /= 0 \/ info.w > 0

ShadeSeen(info) == info.shade /= 0

\* the token that names the header command (631-650, 704-710, 739-744)
FP_Cmd ==
  /\ pc = "fp_cmd"
  /\ \E e \in Draw :
       /\ ReadNew(e)
       /\ IF ReadFailed(e)
          THEN FPFail(e.status, ParserCount(pos + 1))
          ELSE IF e.status /= SNENTITY_META_TOKEN
          THEN FPFail(ERR_HEADC, ParserCount(pos + 1))
          ELSE IF e.pKey = K_dim
          THEN IF DimSeen(si)
               THEN FPFail(ERR_HEADR, ParserCount(pos + 1))
               ELSE /\ pc' = "fp_dim"
                    /\ fp_i' = 0
                    /\ UNCHANGED <<si, perr, pline, ret>>
          ELSE IF e.pKey = K_shade
          THEN IF ShadeSeen(si)
               THEN FPFail(ERR_HEADR, ParserCount(pos + 1))
               ELSE FPGoto("fp_shade")
          ELSE FPFail(ERR_HEADC, ParserCount(pos + 1))
  /\ UNCHANGED <<exitcode, diag, srcVars, stackVars, storeVars, piVars, tkVars>>

\* the range test of a dimension (679)
DimBad(iv) == iv < 1 \/ iv > SPH_IMAGE_MAXDIM

\* the dimension stored by the index of the argument (688-692)
StoreDimSwapped(info, i, iv) ==
  IF i = 0 THEN [info EXCEPT !.h = iv] ELSE [info EXCEPT !.w = iv]

StoreDim(info, i, iv) ==
  IF i = 0 THEN [info EXCEPT !.w = iv] ELSE [info EXCEPT !.h = iv]

\* one argument of dim (654-701)
FP_Dim ==
  /\ pc = "fp_dim"
  /\ \E e \in Draw :
       /\ ReadNew(e)
       /\ IF ReadFailed(e)
          THEN FPFail(e.status, ParserCount(pos + 1))
          ELSE IF e.status /= SNENTITY_META_TOKEN
          THEN FPFail(ERR_HEADS, ParserCount(pos + 1))
          ELSE IF ~parseInt(e.pKey).ok
          THEN FPFail(ERR_HEADS, ParserCount(pos + 1))
          ELSE LET iv == parseInt(e.pKey).v IN
               IF DimBad(iv)
               THEN FPFail(ERR_DIM, ParserCount(pos + 1))
               ELSE IF fp_i = 0
               THEN /\ si' = StoreDim(si, fp_i, iv)
                    /\ fp_i' = 1
                    /\ pc' = "fp_dim"
                    /\ UNCHANGED <<perr, pline, ret>>
               ELSE /\ si' = StoreDim(si, fp_i, iv)
                    /\ fp_i' = 2
                    /\ pc' = "fp_endmeta"
                    /\ UNCHANGED <<perr, pline, ret>>
  /\ UNCHANGED <<exitcode, diag, srcVars, stackVars, storeVars, piVars, tkVars>>

\* the shading mode a token names (728-731), 0 when it names none
ShadeModeSwapped(key) ==
  IF key = K_vertex THEN SHADE_FLAT
  ELSE IF key = K_triangle THEN SHADE_INTER
  ELSE 0

ShadeMode(key) ==
  IF key = K_vertex THEN SHADE_INTER
  ELSE IF key = K_triangle THEN SHADE_FLAT
  ELSE 0

\* the argument of shade (712-737)
FP_Shade ==
  /\ pc = "fp_shade"
  /\ \E e \in Draw :
       /\ ReadNew(e)
       /\ IF ReadFailed(e)
          THEN FPFail(e.status, ParserCount(pos + 1))
          ELSE IF e.status /= SNENTITY_META_TOKEN
          THEN FPFail(ERR_HEADS, ParserCount(pos + 1))
          ELSE IF ShadeMode(e.pKey) /= 0
          THEN /\ si' = [si EXCEPT !.shade = ShadeMode(e.pKey)]
               /\ pc' = "fp_endmeta"
               /\ UNCHANGED <<perr, pline, fp_i, ret>>
          ELSE FPFail(ERR_SHADE, ParserCount(pos + 1))
  /\ UNCHANGED <<exitcode, diag, srcVars, stackVars, storeVars, piVars, tkVars>>

\* the test for the entity that ends a header metacommand (754)
ClosesCommandOrToken(e) ==
  e.status \in {SNENTITY_END_META, SNENTITY_META_TOKEN}

ClosesCommand(e) == e.status = SNENTITY_END_META

\* the end of a header metacommand (746-759)
FP_EndMeta ==
  /\ pc = "fp_endmeta"
  /\ \E e \in Draw :
       /\ ReadNew(e)
       /\ IF ReadFailed(e)
          THEN FPFail(e.status, ParserCount(pos + 1))
          ELSE IF ~ClosesCommand(e)
          THEN FPFail(ERR_HEADC, ParserCount(pos + 1))
          ELSE FPGoto("fp_hdr")
  /\ UNCHANGED <<exitcode, diag, srcVars, stackVars, storeVars, piVars, tkVars>>

\* the next iteration of the counting scan (796)
FP_Body ==
  /\ pc = "fp_body"
  /\ \E e \in Draw :
       /\ ReadNew(e)
       /\ BodyStep(e, pos + 1, si)
  /\ UNCHANGED <<exitcode, diag, srcVars, stackVars, storeVars, piVars, tkVars>>

\* the error reported when snsource_consume has returned r < 0 (849)
ConsumeCodeStray(r) == ERR_STRAY

ConsumeCode(r) == r

\* snsource_consume after the end-of-input marker, and the return (844-872)
FP_Consume ==
  /\ pc = "fp_consume"
  /\ \E r \in {IF failed THEN SNERR_TRAILER ELSE 1 : failed \in MayFail} :
       IF r < 0
       THEN FPFail(ConsumeCode(r), ParserCount(pos))
       ELSE /\ pline' = AdjustLine(pline)
            /\ ret' = 1
            /\ pc' = "main_fp_done"
            /\ UNCHANGED <<si, perr, fp_i>>
  /\ UNCHANGED <<exitcode, diag, srcVars, script, pos, ent, stackVars, storeVars, piVars, tkVars>>

(***************************************************************************)
(* main between the passes (1669-1696).                                    *)
(***************************************************************************)
\* the diagnostic of a failed pass (1673-1679, 1702-1708)
PassDiag == <<[kind |-> "pass", err |-> perr, line |-> IF pline > 0 THEN pline ELSE 0]>>

\* the test of the status a pass returned (1671, 1700)
PassFailedInverted(r) == r /= 0

PassFailedNever(r) == FALSE

PassFailed(r) == r = 0

Main_AfterFirst ==
  /\ pc = "main_fp_done"
  /\ IF PassFailed(ret)
     THEN Exit(ExitStatus(0), PassDiag)
     ELSE pc' = "main_rewind" /\ UNCHANGED <<exitcode, diag>>
  /\ UNCHANGED <<ret, srcVars, script, pos, ent, fpVars, stackVars, storeVars, piVars, tkVars>>

Main_Rewind ==
  /\ pc = "main_rewind"
  /\ \E failed \in MayFail :
       IF failed
       THEN /\ Exit(ExitStatus(0), <<[kind |-> "rewind", err |-> 0, line |-> 0]>>)
            /\ ret' = 0
            /\ pos' = pos
       ELSE /\ pc' = "main_begin"
            /\ pos' = 0
            /\ UNCHANGED <<ret, exitcode, diag>>
  /\ UNCHANGED <<srcVars, script, ent, fpVars, stackVars, storeVars, piVars, tkVars>>

(***************************************************************************)
(* The declaration store (227-238, 286-507).  An array is a function on    *)
(* 0 .. count-1, zero-filled by calloc; a NULL array is the empty one.     *)
(***************************************************************************)
ZeroVT == [a |-> 0, b |-> 0, c |-> 0, u |-> 0]
NewArray(count) == [k \in 0 .. count - 1 |-> ZeroVT]

\* begin_data(si.vcount, si.tcount), called by main (1694-1696)
BeginData ==
  /\ pc = "main_begin"
  /\ IF m_init /= 0
        \/ si.vcount < 0 \/ si.vcount > MAX_VERTEX
        \/ si.tcount < 0 \/ si.tcount > MAX_TRIS
     THEN /\ pc' = "abort"
          /\ UNCHANGED <<m_init, m_vcount, m_tcount, m_vwrite, m_twrite, m_ready,
                         m_pv, m_pt>>
     ELSE /\ pc' = "sp_begin"
          /\ m_init' = 1
          /\ m_vcount' = si.vcount
          /\ m_tcount' = si.tcount
          /\ m_vwrite' = 0
          /\ m_twrite' = 0
          /\ m_ready' = 0
          /\ m_pv' = NewArray(si.vcount)
          /\ m_pt' = NewArray(si.tcount)
  /\ UNCHANGED <<mainVars, srcVars, script, pos, ent, fpVars, stackVars, dv_ok, dt_ok,
                 piVars, tkVars>>

\* the room test of declare_vert and declare_tri (373, 444)
HasRoom(write, count) == write < count

\* the index of the record a declaration stores (375-378, 446-449)
SlotFirst(write) == 0

Slot(write) == write

\* the cursor after a record has been stored (381, 452)
NextCursorStays(write) == write

NextCursorSkips(write) == write + 2

NextCursor(write) == write + 1

\* the parameter check of declare_vert (363-370)
VertFault(z, c) == m_init = 0 \/ z < 0 \/ c < 0 \/ c > RGB_MAX

\* the parameter check of declare_tri (431-441)
TriFault(i, j, k, c) ==
  \/ m_init = 0
  \/ i < 0 \/ i >= m_vcount
  \/ j < 0 \/ j >= m_vcount
  \/ k < 0 \/ k >= m_vcount
  \/ c < 0 \/ c > RGB_MAX

\* check_decl() (481-507): its result, and the flag it caches
CheckDeclVertices ==
  \/ m_ready /= 0
  \/ (m_init /= 0 /\ m_vwrite >= m_vcount)

CheckDecl ==
  \/ m_ready /= 0
  \/ (m_init /= 0 /\ m_vwrite >= m_vcount /\ m_twrite >= m_tcount)

ReadyAfterCheck == IF CheckDecl THEN 1 ELSE m_ready

(***************************************************************************)
(* second_pass (924-1358).                                                 *)
(***************************************************************************)
\* the capacity test before a push (990, 1042)
StackFullOff(count) == count > MAX_ISTACK

StackFull(count) == count >= MAX_ISTACK

IsHexDigitToG(c) ==
  ~ ( (Ord(c) < Ord("0") \/ Ord(c) > Ord("9"))
      /\ (Ord(c) < Ord("A") \/ Ord(c) > Ord("G"))
      /\ (Ord(c) < Ord("a") \/ Ord(c) > Ord("g")) )

IsHexDigit(c) ==
  ~ ( (Ord(c) < Ord("0") \/ Ord(c) > Ord("9"))
      /\ (Ord(c) < Ord("A") \/ Ord(c) > Ord("F"))
      /\ (Ord(c) < Ord("a") \/ Ord(c) > Ord("f")) )

HexVal(c) ==
  IF Ord(c) <= Ord("9") THEN Ord(c) - Ord("0")
  ELSE IF Ord(c) <= Ord("F") THEN Ord(c) - Ord("A") + 10
  ELSE Ord(c) - Ord("a") + 10

\* sscanf(ent.pValue, "%lx", &cv) on a string of hexadecimal digits (1022)
RECURSIVE HexValue(_)
HexValue(v) ==
  IF v = <<>> THEN 0
  ELSE HexValue(SubSeq(v, 1, Len(v) - 1)) * 16 + HexVal(v[Len(v)])

\* the range check of the color read by sscanf (1027)
ColorFault(cv) == cv < 0 \/ cv > RGB_MAX

\* the test for the strings second_pass does not support (982)
StringUnsupportedPrefixed(e) == e.str_type /= SNSTRING_CURLY

StringUnsupported(e) == e.str_type /= SNSTRING_CURLY \/ Len(e.pKey) /= 0

\* the checks of a string entity in their order (979-1018): the error code,
\* or ERR_OK
StringErrorLiteralFirst(e, count) ==
  IF StringUnsupported(e) THEN ERR_ETYPE
  ELSE IF Len(e.pValue) /= 6 THEN ERR_RGBL
  ELSE IF \E k \in 1 .. Len(e.pValue) : ~IsHexDigit(e.pValue[k]) THEN ERR_RGBL
  ELSE IF StackFull(count) THEN ERR_OVER
  ELSE ERR_OK

StringError(e, count) ==
  IF StringUnsupported(e) THEN ERR_ETYPE
  ELSE IF StackFull(count) THEN ERR_OVER
  ELSE IF Len(e.pValue) /= 6 THEN ERR_RGBL
  ELSE IF \E k \in 1 .. Len(e.pValue) : ~IsHexDigit(e.pValue[k]) THEN ERR_RGBL
  ELSE ERR_OK

\* the checks of a numeric entity in their order (1039-1055)
NumericError(e, count) ==
  IF StackFull(count) THEN ERR_OVER
  ELSE IF ~parseInt(e.pKey).ok THEN ERR_NUMRL
  ELSE ERR_OK

\* the number of operands of v and of t under a shading mode (1067-1070,
\* 1124-1127, 1185-1188, 1244-1247)
VertAritySwapped(shade) == IF shade = SHADE_FLAT THEN 4 ELSE 3

VertArity(shade) == IF shade = SHADE_INTER THEN 4 ELSE 3

TriAritySame(shade) == IF shade = SHADE_INTER THEN 4 ELSE 3

TriArity(shade) == IF shade = SHADE_FLAT THEN 4 ELSE 3

\* the type check of the operands at st[i .. i+n-1] (1083-1086, 1140-1142,
\* 1201-1204, 1260-1262)
TypesBad(stk, i, n) ==
  \/ stk[i].ntype /= NTYPE_INT
  \/ stk[i + 1].ntype /= NTYPE_INT
  \/ stk[i + 2].ntype /= NTYPE_INT
  \/ (n = 4 /\ stk[i + 3].ntype /= NTYPE_RGB)

\* the range check of the Z coordinate (1095, 1151)
ZNegativeOff(z) == FALSE

ZNegative(z) == z < 0

\* the range check of one vertex index (1213-1215, 1271-1273)
IndexBadWritten(x, vcount) == x < 0 \/ x >= m_vwrite

IndexBadNoLower(x, vcount) == x >= vcount

IndexBad(x, vcount) == x < 0 \/ x >= vcount

\* the checks of an operation before the store is called, in their order:
\* the error code, or ERR_OK
OpError(n, stk, count, isVert, vcount) ==
  IF count < n THEN ERR_UNDER
  ELSE LET i == count - n IN
       IF TypesBad(stk, i, n) THEN ERR_SYNTX
       ELSE IF isVert
       THEN (IF ZNegative(stk[i + 2].val) THEN ERR_ZNEG ELSE ERR_OK)
       ELSE IF IndexBad(stk[i].val, vcount) \/ IndexBad(stk[i + 1].val, vcount)
               \/ IndexBad(stk[i + 2].val, vcount)
       THEN ERR_VIDX
       ELSE ERR_OK

\* the record an operation hands to the store: the operands, the color 0
\* when the mode gives the operation no color
OpRecord(n, stk, count) ==
  LET i == count - n IN
  [a |-> stk[i].val, b |-> stk[i + 1].val, c |-> stk[i + 2].val,
   u |-> IF n = 4 THEN stk[i + 3].val ELSE 0]

\* the stack after n values have been popped (1116-1122 and alike)
PoppedKept(stk, count, n) == stk

Popped(stk, count, n) ==
  [k \in 0 .. MAX_ISTACK - 1 |-> IF k >= count - n /\ k < count THEN UndefNode ELSE stk[k]]

SPFail(code, line) ==
  /\ perr' = code
  /\ pline' = AdjustLine(line)
  /\ ret' = 0
  /\ pc' = "main_sp_done"
  /\ UNCHANGED <<stackVars, storeVars>>

SPPush(node) ==
  /\ st' = [st EXCEPT ![st_count] = node]
  /\ st_count' = st_count + 1
  /\ pc' = "sp_loop"
  /\ UNCHANGED <<perr, pline, ret, storeVars>>

\* the start of second_pass, down to snparser_alloc (931-963)
SP_Begin ==
  /\ pc = "sp_begin"
  /\ IF si.shade /= SHADE_FLAT /\ si.shade /= SHADE_INTER
     THEN pc' = "abort" /\ UNCHANGED <<perr, pline>>
     ELSE pc' = "sp_loop" /\ perr' = ERR_OK /\ pline' = 0
  /\ st' = EmptyStack
  /\ st_count' = 0
  /\ UNCHANGED <<mainVars, srcVars, script, pos, ent, si, fp_i, storeVars, piVars, tkVars>>

\* a v operation (1066-1182)
VertOp(line) ==
  LET n == VertArity(si.shade)
      err == OpError(n, st, st_count, TRUE, si.vcount)
      r == OpRecord(n, st, st_count)
  IN IF err /= ERR_OK THEN SPFail(err, line)
     ELSE IF VertFault(r.c, r.u)
     THEN pc' = "abort" /\ UNCHANGED <<perr, pline, ret, stackVars, storeVars>>
     ELSE IF HasRoom(m_vwrite, m_vcount)
     THEN /\ m_pv' = [m_pv EXCEPT ![Slot(m_vwrite)] = r]
          /\ m_vwrite' = NextCursor(m_vwrite)
          /\ dv_ok' = dv_ok + 1
          /\ st' = Popped(st, st_count, n)
          /\ st_count' = st_count - n
          /\ pc' = "sp_loop"
          /\ UNCHANGED <<perr, pline, ret, m_init, m_vcount, m_tcount, m_twrite,
                         m_ready, m_pt, dt_ok>>
     ELSE SPFail(ERR_SYNC, line)

\* a t operation (1184-1304)
TriOp(line) ==
  LET n == TriArity(si.shade)
      err == OpError(n, st, st_count, FALSE, si.vcount)
      r == OpRecord(n, st, st_count)
  IN IF err /= ERR_OK THEN SPFail(err, line)
     ELSE IF TriFault(r.a, r.b, r.c, r.u)
     THEN pc' = "abort" /\ UNCHANGED <<perr, pline, ret, stackVars, storeVars>>
     ELSE IF HasRoom(m_twrite, m_tcount)
     THEN /\ m_pt' = [m_pt EXCEPT ![Slot(m_twrite)] = r]
          /\ m_twrite' = NextCursor(m_twrite)
          /\ dt_ok' = dt_ok + 1
          /\ st' = Popped(st, st_count, n)
          /\ st_count' = st_count - n
          /\ pc' = "sp_loop"
          /\ UNCHANGED <<perr, pline, ret, m_init, m_vcount, m_tcount, m_vwrite,
                         m_ready, m_pv, dv_ok>>
     ELSE SPFail(ERR_SYNC, line)

\* one iteration of the interpreter loop (966-1324): the read and the
\* handling of the entity read
SP_Step ==
  /\ pc = "sp_loop"
  /\ ReadAgain
  /\ \E e \in {EntityAt(script, pos + 1)} :
     LET line == ParserCount(pos + 1)
     IN IF e.status <= 0
        THEN pc' = "sp_end" /\ UNCHANGED <<perr, pline, ret, stackVars, storeVars>>
        ELSE IF IsMeta(e)
        THEN pc' = "sp_loop" /\ UNCHANGED <<perr, pline, ret, stackVars, storeVars>>
        ELSE IF e.status = SNENTITY_STRING
        THEN IF StringError(e, st_count) /= ERR_OK
             THEN SPFail(StringError(e, st_count), line)
             ELSE IF ColorFault(HexValue(e.pValue))
             THEN pc' = "abort" /\ UNCHANGED <<perr, pline, ret, stackVars, storeVars>>
             ELSE SPPush([ntype |-> NTYPE_RGB, val |-> HexValue(e.pValue)])
        ELSE IF e.status = SNENTITY_NUMERIC
        THEN IF NumericError(e, st_count) /= ERR_OK
             THEN SPFail(NumericError(e, st_count), line)
             ELSE SPPush([ntype |-> NTYPE_INT, val |-> parseInt(e.pKey).v])
        ELSE IF e.status = SNENTITY_OPERATION
        THEN IF e.pKey = K_v THEN VertOp(line)
             ELSE IF e.pKey = K_t THEN TriOp(line)
             ELSE SPFail(ERR_BADOP, line)
        ELSE SPFail(ERR_ETYPE, line)
  /\ UNCHANGED <<exitcode, diag, srcVars, si, fp_i, piVars, tkVars>>

\* the test for data left on the stack (1341)
StackLeftIgnored(count) == FALSE

StackLeft(count) == count /= 0

\* after the loop (1325-1357)
SP_End ==
  /\ pc = "sp_end"
  /\ pc' = "main_sp_done"
  /\ IF ent.status < 0
     THEN /\ perr' = ent.status
          /\ pline' = AdjustLine(ParserCount(pos))
          /\ ret' = 0
          /\ m_ready' = m_ready
     ELSE /\ m_ready' = ReadyAfterCheck
          /\ pline' = AdjustLine(pline)
          /\ IF ~CheckDecl
             THEN perr' = ERR_SYNC /\ ret' = 0
             ELSE IF StackLeft(st_count)
             THEN perr' = ERR_STREM /\ ret' = 0
             ELSE perr' = perr /\ ret' = 1
  /\ UNCHANGED <<exitcode, diag, srcVars, script, pos, ent, si, fp_i, stackVars,
                 m_init, m_vcount, m_tcount, m_vwrite, m_twrite, m_pv, m_pt,
                 dv_ok, dt_ok, piVars, tkVars>>

(***************************************************************************)
(* main after the second pass (1698-1745).                                 *)
(***************************************************************************)
Main_AfterSecond ==
  /\ pc = "main_sp_done"
  /\ IF PassFailed(ret)
     THEN Exit(ExitStatus(0), PassDiag)
     ELSE pc' = "main_check" /\ UNCHANGED <<exitcode, diag>>
  /\ UNCHANGED <<ret, srcVars, script, pos, ent, fpVars, stackVars, storeVars, piVars, tkVars>>

Main_Check ==
  /\ pc = "main_check"
  /\ m_ready' = ReadyAfterCheck
  /\ IF ~CheckDecl
     THEN pc' = "abort" /\ UNCHANGED <<exitcode, diag>>
     ELSE Exit(ExitStatus(1), <<>>)
  /\ UNCHANGED <<ret, srcVars, script, pos, ent, fpVars, stackVars,
                 m_init, m_vcount, m_tcount, m_vwrite, m_twrite, m_pv, m_pt,
                 dv_ok, dt_ok, piVars, tkVars>>

Next ==
  \/ MainStart
  \/ FP_Begin
  \/ FP_Sig1
  \/ FP_Sig2
  \/ FP_Sig3
  \/ FP_Hdr
  \/ FP_Cmd
  \/ FP_Dim
  \/ FP_Shade
  \/ FP_EndMeta
  \/ FP_Body
  \/ FP_Consume
  \/ Main_AfterFirst
  \/ Main_Rewind
  \/ BeginData
  \/ SP_Begin
  \/ SP_Step
  \/ SP_End
  \/ Main_AfterSecond
  \/ Main_Check

Spec == Init /\ [][Next]_vars

\* the program is one sequential process: a step that can be taken is taken
SpecTerm == Init /\ [][Next]_vars /\ WF_vars(Next)

InitHeader == InitWith({"header"}, {E_EOF})
SpecHeader == InitHeader /\ [][Next]_vars

InitLines == InitWith({"lines"}, {E_EOF})
SpecLines == InitLines /\ [][Next]_vars

InitSigned == InitWith({"signed"}, {E_EOF})
SpecSigned == InitSigned /\ [][Next]_vars

InitGrouped == InitWith({"grouped"}, {E_EOF})
SpecGrouped == InitGrouped /\ [][Next]_vars

InitLiteral == InitWith({"literal"}, {E_Num0, E_Col})
SpecLiteral == InitLiteral /\ [][Next]_vars

InitOrdered == InitWith({"ordered"}, {E_EOF})
SpecOrdered == InitOrdered /\ [][Next]_vars

InitFlood == InitWith({"flood"}, {E_OpV, E_OpT, E_Num0, E_Col})
SpecFlood == InitFlood /\ [][Next]_vars

(***************************************************************************)
(* parseInt on its own: an integer is formatted in decimal and the token   *)
(* is handed to parseInt.                                                  *)
(***************************************************************************)
PowersOfTen ==
  {10, 100, 1000, 10000, 100000, 1000000, 10000000, 100000000, 1000000000}

ParseInputs ==
  {INT32_MIN + k : k \in 0 .. ParseSpan}
  \cup {INT32_MAX - k : k \in 0 .. ParseSpan}
  \cup (-ParseSpan .. ParseSpan)
  \cup UNION {{q - 1, q, q + 1, 1 - q, -q, -q - 1} : q \in PowersOfTen}

InitParse == InitWith({"none"}, {E_EOF})

PI_Pick ==
  /\ pc = "main_start"
  /\ src_kind = "none"
  /\ \E n \in ParseInputs :
       /\ pi_n' = n
       /\ pi_in' = FormatInt(n)
  /\ pc' = "pi_call"
  /\ UNCHANGED <<mainVars, srcVars, script, pos, ent, fpVars, stackVars, storeVars, pi_out,
                 tkVars>>

PI_Parse ==
  /\ pc = "pi_call"
  /\ pi_out' = parseInt(pi_in)
  /\ pc' = "pi_done"
  /\ UNCHANGED <<mainVars, srcVars, script, pos, ent, fpVars, stackVars, storeVars,
                 pi_n, pi_in, tkVars>>

NextParse == PI_Pick \/ PI_Parse

SpecParse == InitParse /\ [][NextParse]_vars

(***************************************************************************)
(* parseInt statement by statement (1514-1594) on a token: every token of  *)
(* up to MaxTok characters of TokChars, and the long tokens around         *)
(* INT32_MAX.                                                              *)
(***************************************************************************)
TokChars == {"+", "-", "0", "1", "9", "x"}

LongDigits ==
  { <<"2", "1", "4", "7", "4", "8", "3", "6", "4", "6">>,
    <<"2", "1", "4", "7", "4", "8", "3", "6", "4", "7">>,
    <<"2", "1", "4", "7", "4", "8", "3", "6", "4", "8">>,
    <<"2", "1", "4", "7", "4", "8", "3", "6", "5", "0">>,
    <<"2", "1", "4", "7", "4", "8", "3", "6", "4", "x">>,
    <<"2", "1", "4", "7", "4", "8", "3", "6", "4", "7", "0">>,
    <<"9", "9", "9", "9", "9", "9", "9", "9", "9", "9">>,
    <<"1", "0", "0", "0", "0", "0", "0", "0", "0", "0">>,
    <<"9", "9", "9", "9", "9", "9", "9", "9", "9">> }

LongPrefixes ==
  { <<>>, <<"+">>, <<"-">>, <<"0">>, <<"-", "0", "0">>, <<"+", "0">>, <<"-", "-">> }

Tokens ==
  UNION {[1 .. k -> TokChars] : k \in 0 .. MaxTok}
  \cup {pre \o digs : pre \in LongPrefixes, digs \in LongDigits}

\* x + y in int32_t; where C leaves the sum undefined the usual build wraps
WrapAdd(x, y) ==
  IF y >= 0 /\ x > INT32_MAX - y THEN (x - INT32_MAX - 1) + (y - INT32_MAX - 1)
  ELSE IF y < 0 /\ x < INT32_MIN - y THEN (x + INT32_MAX + 1) + (y + INT32_MAX + 1)
  ELSE x + y

\* x * 10 in int32_t (1560), wrapping alike
WrapTimesTen(x) ==
  LET x2 == WrapAdd(x, x)
      x4 == WrapAdd(x2, x2)
      x8 == WrapAdd(x4, x4)
  IN WrapAdd(x8, x2)

InitToken == InitWith({"token"}, {E_EOF})

\* the call: the locals as declared (1516-1519)
TK_Pick ==
  /\ pc = "main_start"
  /\ src_kind = "token"
  /\ pi_in' \in Tokens
  /\ tk_negflag' = 0
  /\ tk_result' = 0
  /\ tk_status' = 1
  /\ tk_i' = 1
  /\ pc' = "tk_sign"
  /\ UNCHANGED <<mainVars, srcVars, script, pos, ent, fpVars, stackVars, storeVars,
                 pi_n, pi_out>>

\* the sign character and the test for a first digit (1526-1541)
TK_Sign ==
  /\ pc = "tk_sign"
  /\ LET signed == Len(pi_in) > 0 /\ (pi_in[1] = "+" \/ pi_in[1] = "-")
         first == IF signed THEN 2 ELSE 1
     IN /\ tk_negflag' = IF Len(pi_in) > 0 /\ pi_in[1] = "-" THEN 1 ELSE 0
        /\ tk_i' = first
        /\ tk_status' = IF first > Len(pi_in) THEN 0 ELSE tk_status
        /\ pc' = IF first > Len(pi_in) THEN "tk_end" ELSE "tk_loop"
  /\ UNCHANGED <<mainVars, srcVars, script, pos, ent, fpVars, stackVars, storeVars,
                 piVars, tk_result>>

\* the loop test and one iteration of the digit loop (1545-1579)
TK_Digit ==
  /\ pc = "tk_loop"
  /\ IF tk_i > Len(pi_in)
     THEN pc' = "tk_end" /\ UNCHANGED <<tk_result, tk_status, tk_i>>
     ELSE LET c == pi_in[tk_i]
              isdig == ~(Ord(c) < Ord("0") \/ Ord(c) > Ord("9"))
              d == Ord(c) - Ord("0")
              mul == isdig /\ MulFits(tk_result)
              r1 == IF mul THEN WrapTimesTen(tk_result) ELSE tk_result
              add == mul /\ AddFits(r1, d)
              r2 == IF add THEN WrapAdd(r1, d) ELSE r1
          IN /\ tk_result' = r2
             /\ tk_status' = IF add THEN tk_status ELSE 0
             /\ tk_i' = IF add THEN tk_i + 1 ELSE tk_i
             /\ pc' = IF add THEN "tk_loop" ELSE "tk_end"
  /\ UNCHANGED <<mainVars, srcVars, script, pos, ent, fpVars, stackVars, storeVars,
                 piVars, tk_negflag>>

\* the sign applied, the value written, the return (1582-1593)
TK_End ==
  /\ pc = "tk_end"
  /\ tk_result' = IF tk_status /= 0 THEN ApplySign(tk_negflag /= 0, tk_result)
                  ELSE tk_result
  /\ pi_out' = IF tk_status /= 0 THEN [ok |-> TRUE, v |-> tk_result']
               ELSE [ok |-> FALSE, v |-> 0]
  /\ pc' = "tk_done"
  /\ UNCHANGED <<mainVars, srcVars, script, pos, ent, fpVars, stackVars, storeVars,
                 pi_n, pi_in, tk_negflag, tk_status, tk_i>>

NextToken == TK_Pick \/ TK_Sign \/ TK_Digit \/ TK_End

SpecToken == InitToken /\ [][NextToken]_vars

(***************************************************************************)
(* Properties.                                                             *)
(***************************************************************************)
\* the number of entities in the set S among the first p of the script
RECURSIVE CountBefore(_, _, _)
CountBefore(s, p, S) ==
  IF p <= 0 \/ s = <<>> THEN 0
  ELSE IF p >= s[1].n
  THEN (IF s[1].e \in S THEN s[1].n ELSE 0) + CountBefore(SubSeq(s, 2, Len(s)), p - s[1].n, S)
  ELSE (IF s[1].e \in S THEN p ELSE 0)

\* both passes have returned non-zero
Compiled ==
  \/ (pc \in {"main_sp_done", "main_check"} /\ ret = 1)
  \/ (pc = "exit" /\ exitcode = 0)

\* the entity the next snparser_read of second_pass yields
Reading == EntityAt(script, pos + 1)

\* the failure return of second_pass with the error code
FailsWith(code) ==
  /\ pc' = "main_sp_done"
  /\ ret' = 0
  /\ perr' = code
  /\ UNCHANGED <<st, st_count, m_vwrite, m_twrite, m_pv, m_pt, dv_ok, dt_ok>>

\* C1: when first_pass and then second_pass have both succeeded on a script,
\* the number of declare_vert calls that succeeded is the vcount of pass 1,
\* the number of declare_tri calls that succeeded is the tcount of pass 1,
\* and the store is complete: check_decl() is true, both cursors stand at
\* their capacities, and the capacities are the counts of pass 1.
C1_CountsMatch ==
  Compiled =>
    /\ dv_ok = si.vcount
    /\ dt_ok = si.tcount
    /\ CheckDecl
    /\ m_vwrite = m_vcount /\ m_vcount = si.vcount
    /\ m_twrite = m_tcount /\ m_tcount = si.tcount

C1_Witness ==
  /\ pc = "exit" /\ exitcode = 0
  /\ dv_ok >= 2 /\ dt_ok >= 1
  /\ dv_ok = si.vcount /\ dt_ok = si.tcount

\* C2: with both passes reading the same entities and the store allocated
\* with the counts of pass 1, second_pass never reports ERR_SYNC: while it
\* runs, the vertices (triangles) declared so far are the v (t) operations
\* read so far and the capacity is the number of v (t) operations of the
\* whole script, so that no declaration meets a full store and the store is
\* complete at the end of input.
C2_NoSync ==
  /\ perr /= ERR_SYNC
  /\ pc \in {"sp_loop", "sp_end"} =>
       /\ m_vwrite = CountBefore(script, pos, {E_OpV})
       /\ m_twrite = CountBefore(script, pos, {E_OpT})
       /\ m_vcount = CountIn(script, {E_OpV})
       /\ m_tcount = CountIn(script, {E_OpT})
       /\ dv_ok = m_vwrite /\ dt_ok = m_twrite
  /\ (pc = "sp_end" /\ ent.status = SNENTITY_EOF) =>
       (m_vwrite = m_vcount /\ m_twrite = m_tcount)

C2_Witness ==
  /\ pc = "main_sp_done" /\ ret = 1
  /\ ent.status = SNENTITY_EOF
  /\ m_vcount >= 1 /\ m_vwrite = m_vcount

\* C3: second_pass succeeds only with an empty stack at the end of input;
\* when the loop has ended on the end-of-input marker and the store is
\* complete but the stack is not empty, it fails with ERR_STREM.
C3_StackAtEnd ==
  /\ (pc = "main_sp_done" /\ ret = 1) => (st_count = 0 /\ ent.status = SNENTITY_EOF)
  /\ (pc = "main_sp_done" /\ ent.status = SNENTITY_EOF
        /\ m_vwrite = m_vcount /\ m_twrite = m_tcount /\ st_count /= 0)
       => (ret = 0 /\ perr = ERR_STREM)

C3_Witness ==
  /\ pc = "main_sp_done" /\ ret = 0 /\ perr = ERR_STREM
  /\ st_count = 1 /\ dv_ok = 1
  /\ m_vwrite = m_vcount /\ m_twrite = m_tcount

\* C4: first_pass accepts exactly MAX_VERTEX v operations and MAX_TRIS t
\* operations: the counts never exceed the maxima, while the scan runs every
\* operation read so far has been counted, a pass that succeeds has counted
\* every operation, and a pass fails with ERR_MANYV (ERR_MANYT) exactly when
\* the script read so far holds MAX_VERTEX + 1 v (MAX_TRIS + 1 t) operations.
C4_CountLimits ==
  LET nv == CountIn(script, {E_OpV})
      nt == CountIn(script, {E_OpT})
  IN /\ si.vcount <= 16384 /\ si.tcount <= 16384
     /\ pc = "fp_body" => (si.vcount = nv /\ si.tcount = nt)
     /\ (pc = "main_fp_done" /\ ret = 1) => (si.vcount = nv /\ si.tcount = nt)
     /\ (pc = "main_fp_done" /\ ret = 0) =>
          /\ perr = ERR_MANYV <=> nv = 16384 + 1
          /\ perr = ERR_MANYT <=> nt = 16384 + 1

C4_Witness ==
  /\ pc = "main_fp_done" /\ ret = 1
  /\ si.vcount = 16384
  /\ CountIn(script, {E_OpV}) = 16384

\* C5: a t operation whose operands are on the stack with the right types
\* fails with ERR_VIDX exactly when one of its three indices is outside
\* 0 .. vcount-1, vcount the count of pass 1 and not the number of vertices
\* declared so far; otherwise the triangle is stored.
C5_IndexRange ==
  [][ (pc = "sp_loop" /\ Reading = E_OpT) =>
        LET n == IF si.shade = SHADE_FLAT THEN 4 ELSE 3
            i == st_count - n
        IN (/\ st_count >= n
            /\ \A k \in 0 .. 2 : st[i + k].ntype = NTYPE_INT
            /\ n = 4 => st[i + 3].ntype = NTYPE_RGB)
           => LET outside == \E k \in 0 .. 2 :
                               st[i + k].val < 0 \/ st[i + k].val >= si.vcount
              IN /\ outside <=> FailsWith(ERR_VIDX)
                 /\ ~outside => /\ pc' = "sp_loop"
                                /\ m_twrite' = m_twrite + 1
                                /\ m_pt'[m_twrite].a = st[i].val
                                /\ m_pt'[m_twrite].b = st[i + 1].val
                                /\ m_pt'[m_twrite].c = st[i + 2].val
    ]_vars

C5_Witness ==
  /\ pc = "sp_loop"
  /\ m_twrite = 1
  /\ m_pt[0].a = si.vcount - 1
  /\ m_vwrite < si.vcount

\* C6: a v operation whose operands are on the stack with the right types
\* and whose z is negative fails with ERR_ZNEG in both shading modes, and no
\* vertex is written.
C6_NegativeZ ==
  [][ (pc = "sp_loop" /\ Reading = E_OpV) =>
        LET n == IF si.shade = SHADE_INTER THEN 4 ELSE 3
            i == st_count - n
        IN (/\ st_count >= n
            /\ \A k \in 0 .. 2 : st[i + k].ntype = NTYPE_INT
            /\ n = 4 => st[i + 3].ntype = NTYPE_RGB
            /\ st[i + 2].val < 0)
           => FailsWith(ERR_ZNEG)
    ]_vars

C6_Witness ==
  /\ pc = "main_sp_done" /\ ret = 0 /\ perr = ERR_ZNEG
  /\ ent = E_OpV
  /\ si.shade = SHADE_INTER
  /\ st_count = 4 /\ st[2].val < 0 /\ st[3].ntype = NTYPE_RGB
  /\ m_vwrite = 0

\* C7: a v operation takes Integer x, Integer y, Integer z and an Rgb color
\* in interpolated mode, Integer x, Integer y, Integer z in flat mode, where
\* the color stored is 0.  It checks in this order: too few values on the
\* stack (ERR_UNDER), a value of the wrong type (ERR_SYNTX), a negative z
\* (ERR_ZNEG), a full store (ERR_SYNC); otherwise it stores the vertex and
\* pops its operands.
C7_VertexOp ==
  [][ (pc = "sp_loop" /\ Reading = E_OpV) =>
        LET n == IF si.shade = SHADE_INTER THEN 4 ELSE 3
            i == st_count - n
        IN IF st_count < n THEN FailsWith(ERR_UNDER)
           ELSE IF \/ \E k \in 0 .. 2 : st[i + k].ntype /= NTYPE_INT
                   \/ (si.shade = SHADE_INTER /\ st[i + 3].ntype /= NTYPE_RGB)
           THEN FailsWith(ERR_SYNTX)
           ELSE IF st[i + 2].val < 0 THEN FailsWith(ERR_ZNEG)
           ELSE IF m_vwrite >= m_vcount THEN FailsWith(ERR_SYNC)
           ELSE /\ pc' = "sp_loop"
                /\ perr' = ERR_OK
                /\ m_vwrite' = m_vwrite + 1
                /\ m_pv' = [m_pv EXCEPT ![m_vwrite] =
                              [a |-> st[i].val, b |-> st[i + 1].val, c |-> st[i + 2].val,
                               u |-> IF si.shade = SHADE_INTER THEN st[i + 3].val ELSE 0]]
                /\ st_count' = st_count - n
                /\ \A k \in 0 .. st_count' - 1 : st'[k] = st[k]
    ]_vars

C7_Witness ==
  /\ pc = "sp_loop"
  /\ si.shade = SHADE_INTER
  /\ ent = E_OpV
  /\ m_vwrite = 1
  /\ m_pv[0] = [a |-> 1, b |-> 0, c |-> 0, u |-> 16711680]
  /\ st_count = 0

\* C8: a t operation takes Integer v1, Integer v2, Integer v3 and an Rgb
\* color in flat mode, Integer v1, Integer v2, Integer v3 in interpolated
\* mode, where the color stored is 0.  It checks in this order: too few
\* values on the stack (ERR_UNDER), a value of the wrong type (ERR_SYNTX), an
\* index out of range (ERR_VIDX), a full store (ERR_SYNC); otherwise it
\* stores the triangle and pops its operands.
C8_TriangleOp ==
  [][ (pc = "sp_loop" /\ Reading = E_OpT) =>
        LET n == IF si.shade = SHADE_FLAT THEN 4 ELSE 3
            i == st_count - n
        IN IF st_count < n THEN FailsWith(ERR_UNDER)
           ELSE IF \/ \E k \in 0 .. 2 : st[i + k].ntype /= NTYPE_INT
                   \/ (si.shade = SHADE_FLAT /\ st[i + 3].ntype /= NTYPE_RGB)
           THEN FailsWith(ERR_SYNTX)
           ELSE IF \E k \in 0 .. 2 : st[i + k].val < 0 \/ st[i + k].val >= si.vcount
           THEN FailsWith(ERR_VIDX)
           ELSE IF m_twrite >= m_tcount THEN FailsWith(ERR_SYNC)
           ELSE /\ pc' = "sp_loop"
                /\ perr' = ERR_OK
                /\ m_twrite' = m_twrite + 1
                /\ m_pt' = [m_pt EXCEPT ![m_twrite] =
                              [a |-> st[i].val, b |-> st[i + 1].val, c |-> st[i + 2].val,
                               u |-> IF si.shade = SHADE_FLAT THEN st[i + 3].val ELSE 0]]
                /\ st_count' = st_count - n
                /\ \A k \in 0 .. st_count' - 1 : st'[k] = st[k]
    ]_vars

C8_Witness ==
  /\ pc = "sp_loop"
  /\ si.shade = SHADE_FLAT
  /\ ent = E_OpT
  /\ m_twrite = 1
  /\ m_pt[0] = [a |-> 0, b |-> 0, c |-> 0, u |-> 16711680]
  /\ st_count = 0

\* C9: the depth of the interpreter stack is always in 0 .. MAX_ISTACK; the
\* push of a valid literal fails with ERR_OVER at depth MAX_ISTACK and
\* leaves the stack as it is, and at a smaller depth it succeeds, raises the
\* depth by one and leaves the value on top of the values that were there.
C9_StackBound ==
  /\ [](st_count >= 0 /\ st_count <= 32)
  /\ [][ (pc = "sp_loop" /\ Reading \in {E_Num0, E_Col}) =>
           IF st_count = 32 THEN FailsWith(ERR_OVER)
           ELSE /\ pc' = "sp_loop"
                /\ perr' = ERR_OK
                /\ st_count' = st_count + 1
                /\ st'[st_count] = IF Reading = E_Col
                                   THEN [ntype |-> NTYPE_RGB, val |-> 16711680]
                                   ELSE [ntype |-> NTYPE_INT, val |-> 0]
                /\ \A k \in 0 .. st_count - 1 : st'[k] = st[k]
       ]_vars

C9_Witness ==
  /\ pc = "main_sp_done" /\ ret = 0 /\ perr = ERR_OVER
  /\ st_count = 32
  /\ ent = E_Col
  /\ st[31] = [ntype |-> NTYPE_RGB, val |-> 16711680]

\* C10: parseInt gives back every 32-bit integer other than -2147483648
\* from its decimal text (an optional minus sign, no leading zeros), and
\* fails on the text of -2147483648.
C10_RoundTrip ==
  pc = "pi_done" =>
    /\ pi_n /= -2147483647 - 1 => (pi_out.ok /\ pi_out.v = pi_n)
    /\ pi_n = -2147483647 - 1 => ~pi_out.ok

C10_Witness ==
  /\ pc = "pi_done"
  /\ pi_n = -2147483647
  /\ pi_in = <<"-", "2", "1", "4", "7", "4", "8", "3", "6", "4", "7">>
  /\ pi_out = [ok |-> TRUE, v |-> -2147483647]

\* the digits of a token after its optional sign character
TokDigits(t) ==
  IF Len(t) > 0 /\ (t[1] = "+" \/ t[1] = "-") THEN SubSeq(t, 2, Len(t)) ELSE t

DigitChars == {"0", "1", "2", "3", "4", "5", "6", "7", "8", "9"}

DigitOf(c) == CHOOSE k \in 0 .. 9 : Digits[k + 1] = c

RECURSIVE StripZeros(_)
StripZeros(d) == IF Len(d) > 1 /\ d[1] = "0" THEN StripZeros(Tail(d)) ELSE d

\* whether the digit string a is at most the digit string b of the same length
RECURSIVE DigitsLeq(_, _)
DigitsLeq(a, b) ==
  IF a = <<>> THEN TRUE
  ELSE IF DigitOf(a[1]) /= DigitOf(b[1]) THEN DigitOf(a[1]) < DigitOf(b[1])
  ELSE DigitsLeq(Tail(a), Tail(b))

\* whether the number the digits write is at most 2147483647
MagnitudeFits(d) ==
  LET z == StripZeros(d) IN
  \/ Len(z) < 10
  \/ Len(z) = 10 /\ DigitsLeq(z, <<"2", "1", "4", "7", "4", "8", "3", "6", "4", "7">>)

\* the number the digits write, when it fits
RECURSIVE DecValue(_)
DecValue(d) ==
  IF d = <<>> THEN 0
  ELSE DecValue(SubSeq(d, 1, Len(d) - 1)) * 10 + DigitOf(d[Len(d)])

\* C11: parseInt succeeds exactly on an optional single + or - followed by
\* one or more decimal digits that write a number of at most 2147483647
\* (leading zeros allowed) and then returns that number with its sign; it
\* fails on an empty digit run, on a character that is no digit and on a
\* larger magnitude; and while the digits are read the accumulator is never
\* outside 0 .. 2147483647.
C11_ParseIntAccepts ==
  /\ pc \in {"tk_loop", "tk_end"} => (tk_result >= 0 /\ tk_result <= 2147483647)
  /\ pc = "tk_done" =>
       LET digs == TokDigits(pi_in)
           wf == /\ Len(digs) >= 1
                 /\ \A k \in 1 .. Len(digs) : digs[k] \in DigitChars
                 /\ MagnitudeFits(digs)
       IN /\ pi_out.ok <=> wf
          /\ wf => pi_out.v = (IF pi_in[1] = "-" THEN -DecValue(digs) ELSE DecValue(digs))
          /\ pi_out = parseInt(pi_in)

C11_Witness ==
  /\ pc = "tk_done"
  /\ pi_in = <<"+", "0", "2", "1", "4", "7", "4", "8", "3", "6", "4", "7">>
  /\ pi_out = [ok |-> TRUE, v |-> 2147483647]

\* C12: a header command is accepted once.  When the token that names a
\* header command is read and the header read so far already holds that
\* command (dim, or shade), first_pass fails with ERR_HEADR on that token,
\* with no argument read, whatever lies between the two; and ERR_HEADR is
\* reported for nothing else.
C12_HeaderOnce ==
  [][ pc = "fp_cmd" =>
        LET again == \/ ent' = E_Tok(K_dim) /\ CountIn(script, {E_Tok(K_dim)}) >= 1
                     \/ ent' = E_Tok(K_shade) /\ CountIn(script, {E_Tok(K_shade)}) >= 1
        IN /\ again <=> perr' = ERR_HEADR
           /\ again => /\ pc' = "main_fp_done"
                       /\ ret' = 0
                       /\ pos' = pos + 1
                       /\ script' = AppendEnt(script, ent')
    ]_vars

C12_Witness ==
  /\ pc = "main_fp_done" /\ ret = 0 /\ perr = ERR_HEADR
  /\ ent = E_Tok(K_dim)
  /\ CountIn(script, {E_Tok(K_dim)}) = 2
  /\ CountIn(script, {E_Tok(K_shade)}) = 1
  /\ pos = ScriptLen(script)

\* the place of the dim token in a script that holds one
DimAt(s) == CHOOSE p \in 1 .. ScriptLen(s) : EntityAt(s, p) = E_Tok(K_dim)

\* C13: dim gives its first integer token to the width and its second to
\* the height, and a value parseInt has read (a number of at most
\* 2147483647) that is below 1 or above 16384 fails with ERR_DIM; so
\* when first_pass succeeds the width and the height are the two arguments
\* of dim, both in 1 .. 16384, the shading mode is flat or interpolated and
\* vcount and tcount are in 0 .. 16384.
C13_Dimensions ==
  /\ [][ (/\ pc = "fp_dim"
          /\ ent'.status = SNENTITY_META_TOKEN
          /\ Len(ent'.pKey) >= 1
          /\ \A k \in 1 .. Len(ent'.pKey) : ent'.pKey[k] \in DigitChars
          /\ MagnitudeFits(ent'.pKey))
         => LET v == DecValue(ent'.pKey) IN
            IF v < 1 \/ v > 16384
            THEN pc' = "main_fp_done" /\ ret' = 0 /\ perr' = ERR_DIM
            ELSE /\ pc' \in {"fp_dim", "fp_endmeta"}
                 /\ IF ent = E_Tok(K_dim)
                    THEN si'.w = v /\ si'.h = si.h
                    ELSE si'.h = v /\ si'.w = si.w
       ]_vars
  /\ []( (pc = "main_fp_done" /\ ret = 1) =>
           /\ si.w = DecValue(EntityAt(script, DimAt(script) + 1).pKey)
           /\ si.h = DecValue(EntityAt(script, DimAt(script) + 2).pKey)
           /\ si.w >= 1 /\ si.w <= 16384
           /\ si.h >= 1 /\ si.h <= 16384
           /\ si.shade \in {SHADE_FLAT, SHADE_INTER}
           /\ si.vcount >= 0 /\ si.vcount <= 16384
           /\ si.tcount >= 0 /\ si.tcount <= 16384 )

C13_Witness ==
  /\ pc = "main_fp_done" /\ ret = 1
  /\ si.w = 1 /\ si.h = 16384
  /\ EntityAt(script, DimAt(script) + 1) = E_Tok(<<"1">>)
  /\ EntityAt(script, DimAt(script) + 2) = E_Tok(<<"1", "6", "3", "8", "4">>)

\* C14: the token after a first shade sets the shading mode: vertex sets
\* interpolated (2), triangle sets flat (1), any other token fails with
\* ERR_SHADE and no mode is left set; a pass that succeeds holds the mode
\* its shade command named.
C14_ShadeMapping ==
  /\ [][ (pc = "fp_shade" /\ ent'.status = SNENTITY_META_TOKEN) =>
           IF ent'.pKey = <<"v", "e", "r", "t", "e", "x">>
           THEN pc' = "fp_endmeta" /\ si'.shade = 2 /\ perr' = ERR_OK
           ELSE IF ent'.pKey = <<"t", "r", "i", "a", "n", "g", "l", "e">>
           THEN pc' = "fp_endmeta" /\ si'.shade = 1 /\ perr' = ERR_OK
           ELSE /\ pc' = "main_fp_done" /\ ret' = 0
                /\ perr' = ERR_SHADE
                /\ si'.shade = 0
       ]_vars
  /\ []( (pc = "main_fp_done" /\ ret = 1) =>
           /\ si.shade = 2 <=> CountIn(script, {E_Tok(K_vertex)}) = 1
           /\ si.shade = 1 <=> CountIn(script, {E_Tok(K_triangle)}) = 1 )

C14_Witness ==
  /\ pc = "fp_endmeta"
  /\ ent = E_Tok(K_vertex)
  /\ si.shade = SHADE_INTER
  /\ si.w = 0

\* the signature and one dim and one shade command, in the two orders
DimFirst(a, b, m) ==
  << E_BEGIN, E_Tok(K_dhrender), E_END,
     E_BEGIN, E_Tok(K_dim), E_Tok(a), E_Tok(b), E_END,
     E_BEGIN, E_Tok(K_shade), E_Tok(m), E_END >>

ShadeFirst(a, b, m) ==
  << E_BEGIN, E_Tok(K_dhrender), E_END,
     E_BEGIN, E_Tok(K_shade), E_Tok(m), E_END,
     E_BEGIN, E_Tok(K_dim), E_Tok(a), E_Tok(b), E_END >>

ValidDims == {<<"1">>, <<"2">>, <<"1", "6", "3", "8", "4">>}

\* the first twelve entities of a script
HeadOf(s) == [p \in 1 .. 12 |-> EntityAt(s, p)]

\* whether the script opens with the header of dim a b and shade m, in
\* either order, and no third command
TwoCommands(s, a, b, m) ==
  /\ ScriptLen(s) >= 13
  /\ HeadOf(s) \in {DimFirst(a, b, m), ShadeFirst(a, b, m)}
  /\ EntityAt(s, 13).status /= SNENTITY_BEGIN_META

\* whether the entities read so far are the first entities of the header h
OpensAs(s, h) ==
  /\ ScriptLen(s) >= 1 /\ ScriptLen(s) <= 12
  /\ \A p \in 1 .. ScriptLen(s) : EntityAt(s, p) = h[p]

\* C15: the two header commands may come in either order.  For every valid
\* width, height and mode, first_pass reads the header with dim first and
\* the header with shade first without an error and holds the same width,
\* height and mode after either; what it returns is then fixed by the
\* width, the height, the mode and what follows the header, whichever
\* command came first: no error of the header is reported, and on success
\* the width, height, mode and counts are those written in the script.
C15_OrderFree ==
  \A a \in ValidDims, b \in ValidDims, m \in {K_vertex, K_triangle} :
   /\ \A h \in {DimFirst(a, b, m), ShadeFirst(a, b, m)} :
        OpensAs(script, h) =>
          /\ ret = 1 /\ perr = ERR_OK
          /\ ScriptLen(script) = 12 =>
               /\ pc = "fp_hdr"
               /\ si.w = DecValue(a) /\ si.h = DecValue(b)
               /\ si.shade = (IF m = K_vertex THEN 2 ELSE 1)
   /\ (pc = "main_fp_done" /\ TwoCommands(script, a, b, m)) =>
      /\ perr \notin {ERR_NOSIG, ERR_HEADC, ERR_HEADR, ERR_HEADS, ERR_DIM, ERR_SHADE,
                      ERR_NODIM, ERR_NOSHA}
      /\ ret = 1 <=> perr = ERR_OK
      /\ ret = 1 =>
           si = [w |-> DecValue(a), h |-> DecValue(b),
                 shade |-> IF m = K_vertex THEN 2 ELSE 1,
                 vcount |-> CountIn(script, {E_OpV}),
                 tcount |-> CountIn(script, {E_OpT})]
      /\ ret = 0 => si = ZeroInfo

C15_Witness ==
  /\ pc = "main_fp_done" /\ ret = 1
  /\ TwoCommands(script, <<"1", "6", "3", "8", "4">>, <<"1">>, K_triangle)
  /\ HeadOf(script) = ShadeFirst(<<"1", "6", "3", "8", "4">>, <<"1">>, K_triangle)
  /\ si.w = 16384 /\ si.h = 1 /\ si.shade = SHADE_FLAT
  /\ si.vcount = 1

\* C16: when the header loop ends on an entity that opens no metacommand
\* and is no error, first_pass fails with ERR_NODIM if the header holds no
\* dim, otherwise with ERR_NOSHA if it holds no shade, whatever that entity
\* is: it is neither taken for a stray metacommand nor counted; with both
\* commands given neither error is reported.
C16_Declared ==
  [][ (/\ pc = "fp_hdr"
       /\ ent'.status /= SNENTITY_BEGIN_META
       /\ ent'.status >= 0)
      => IF CountIn(script, {E_Tok(K_dim)}) = 0
         THEN /\ pc' = "main_fp_done" /\ ret' = 0
              /\ perr' = ERR_NODIM
              /\ si' = ZeroInfo
         ELSE IF CountIn(script, {E_Tok(K_shade)}) = 0
         THEN /\ pc' = "main_fp_done" /\ ret' = 0
              /\ perr' = ERR_NOSHA
              /\ si' = ZeroInfo
         ELSE perr' \notin {ERR_NODIM, ERR_NOSHA}
    ]_vars

C16_Witness ==
  /\ pc = "main_fp_done" /\ ret = 0 /\ perr = ERR_NODIM
  /\ ent = E_END
  /\ CountIn(script, {E_Tok(K_dim)}) = 0
  /\ CountIn(script, {E_Tok(K_shade)}) = 0
  /\ ScriptLen(script) = 4

\* the first place, if any, where the script departs from the signature
SigMismatch(s) ==
  LET sig == <<E_BEGIN, E_Tok(<<"d", "h", "r", "e", "n", "d", "e", "r">>), E_END>>
      bad == {p \in 1 .. 3 : p <= ScriptLen(s) /\ EntityAt(s, p) /= sig[p]}
  IN IF bad = {} THEN 0 ELSE CHOOSE p \in bad : \A q \in bad : p <= q

\* C17: first_pass fails with ERR_NOSIG exactly when one of the first three
\* entities is not, in order, a begin-metacommand, the metacommand token
\* dhrender and an end-metacommand; it stops at that entity, and until the
\* three have been accepted no header command has been processed and
\* nothing has been counted.
C17_Signature ==
  /\ (script /= <<>> /\ SigMismatch(script) /= 0) =>
       /\ perr = ERR_NOSIG
       /\ ret = 0
       /\ pc \in {"main_fp_done", "exit"}
       /\ ScriptLen(script) = SigMismatch(script)
       /\ si = ZeroInfo
  /\ (script = <<>> \/ SigMismatch(script) = 0) => perr /= ERR_NOSIG
  /\ pc \in {"fp_sig1", "fp_sig2", "fp_sig3"} =>
       /\ ScriptLen(script) < 3
       /\ si = ZeroInfo

C17_Witness ==
  /\ pc = "main_fp_done" /\ ret = 0 /\ perr = ERR_NOSIG
  /\ ScriptLen(script) = 2
  /\ ent = E_Tok(K_dim)

\* the positions of first_pass in the signature and in the header loop
SigPcs == {"fp_sig1", "fp_sig2", "fp_sig3"}

HeaderPcs == {"fp_hdr", "fp_cmd", "fp_dim", "fp_shade", "fp_endmeta"}

\* C18, as stated: whenever a read of the signature triple or of the header
\* loop yields an entity of negative status, first_pass stops at that entity
\* and reports that status with the line number of the parser.
C18_AsStated ==
  [][ (pc \in SigPcs \cup HeaderPcs /\ ent'.status < 0)
      => /\ pc' = "main_fp_done" /\ ret' = 0
         /\ perr' = ent'.status
         /\ pline' = AdjustLine(ParserCount(pos'))
    ]_vars

\* C18, amended: a read of the header loop (the head of the loop, the command
\* token, the arguments of dim and shade, the end of the metacommand) that
\* yields a negative status stops first_pass at that entity with that status
\* as the error and the line number of the parser; a read of the signature
\* triple that yields a negative status stops first_pass at that entity with
\* ERR_NOSIG and the line number 0.
C18_HeaderErrors ==
  [][ (pc \in SigPcs \cup HeaderPcs /\ ent'.status < 0)
      => /\ pc' = "main_fp_done" /\ ret' = 0
         /\ ScriptLen(script') = pos'
         /\ si' = ZeroInfo
         /\ IF pc \in SigPcs
            THEN perr' = ERR_NOSIG /\ pline' = 0
            ELSE /\ perr' = ent'.status
                 /\ pline' = AdjustLine(ParserCount(pos'))
    ]_vars

C18_Witness ==
  /\ pc = "main_fp_done" /\ ret = 0
  /\ ent = E_ERR /\ perr = E_ERR.status
  /\ linemode = "count" /\ pline = 6
  /\ ScriptLen(script) = 6
  /\ EntityAt(script, 5) = E_Tok(K_dim)

\* the statuses of the metacommand family
MetaFamily ==
  {SNENTITY_BEGIN_META, SNENTITY_END_META,
   SNENTITY_META_TOKEN, SNENTITY_META_STRING}

\* C19: once the header is complete, an entity of the metacommand family
\* read by the counting scan makes first_pass fail with ERR_STRAY at that
\* entity, with the line number of the parser: an end-metacommand, a
\* metacommand token or a metacommand string that ends the header loop, and
\* any of the four, the begin-metacommand of a dim or shade included, after
\* the first entity of the body.
C19_Stray ==
  [][ (/\ ent'.status \in MetaFamily
       /\ \/ pc = "fp_body"
          \/ /\ pc = "fp_hdr"
             /\ ent'.status /= SNENTITY_BEGIN_META
             /\ si.w > 0 /\ si.h > 0 /\ si.shade /= 0)
      => /\ pc' = "main_fp_done" /\ ret' = 0
         /\ perr' = ERR_STRAY
         /\ pline' = AdjustLine(ParserCount(pos'))
         /\ ScriptLen(script') = pos'
         /\ si' = ZeroInfo
    ]_vars

C19_Witness ==
  /\ pc = "main_fp_done" /\ ret = 0 /\ perr = ERR_STRAY
  /\ ent = E_BEGIN
  /\ pos = ScriptLen(script) /\ pos > 10
  /\ EntityAt(script, pos - 1).status \notin MetaFamily
  /\ pline = pos

\* C20, as stated: when the check for trailing data after the end-of-input
\* marker fails, first_pass reports ERR_STRAY.
C20_AsStated ==
  [][ (pc = "fp_consume" /\ ret' = 0) => perr' = ERR_STRAY ]_vars

\* C20, amended: first_pass calls snsource_consume only once the counting
\* scan has read the end-of-input marker; when the call fails, first_pass
\* fails with the negative status the call returned as the error, never
\* ERR_STRAY, and with the line number of the parser; when it succeeds,
\* first_pass succeeds with ERR_OK, line 0 and the counts of the scan.
C20_Trailing ==
  /\ [](pc = "fp_consume" =>
          /\ ent = E_EOF /\ pos = ScriptLen(script)
          /\ perr = ERR_OK /\ pline = 0)
  /\ [][ pc = "fp_consume"
         => /\ pc' = "main_fp_done"
            /\ \/ /\ ret' = 0
                  /\ perr' = SNERR_TRAILER
                  /\ perr' < 0 /\ perr' /= ERR_STRAY
                  /\ pline' = AdjustLine(ParserCount(pos))
                  /\ si' = ZeroInfo
               \/ /\ ret' = 1
                  /\ perr' = ERR_OK /\ pline' = 0
                  /\ si' = si
       ]_vars

C20_Witness ==
  /\ pc = "main_fp_done" /\ ret = 0
  /\ perr = SNERR_TRAILER
  /\ ent = E_EOF /\ pos = ScriptLen(script)
  /\ pline = pos
  /\ \E p \in 1 .. pos - 1 : EntityAt(script, p) \in CoreBody

\* the entities the counting scan passes over: numeric entities, string
\* entities and the operations with a key other than v and t
Uncounted(e) ==
  \/ e.status \in {SNENTITY_NUMERIC, SNENTITY_STRING}
  \/ (e.status = SNENTITY_OPERATION /\ e.pKey /= K_v /\ e.pKey /= K_t)

\* the errors of the interpreter and of the literals
InterpreterErrors ==
  {ERR_SYNC, ERR_ETYPE, ERR_BADOP, ERR_STREM, ERR_UNDER, ERR_OVER,
   ERR_SYNTX, ERR_ZNEG, ERR_VIDX, ERR_NUMRL, ERR_RGBL}

\* the positions of first_pass in the counting scan
ScanPcs == {"fp_body", "fp_consume"}

\* C21: the counting scan does not interpret the body.  A numeric entity, a
\* string entity or an operation with a key other than v and t leaves the
\* state of the scan as it was (the counts, the header values, the error
\* and the status), so that the result of first_pass does not depend on
\* these entities; first_pass never reports an error of the interpreter or
\* of a literal; and when it succeeds vcount is the number of operations
\* with the key v and tcount the number with the key t.
C21_ScanIgnores ==
  /\ [][ (pc = "fp_body" /\ Uncounted(ent'))
         => /\ pc' = "fp_body"
            /\ si' = si /\ perr' = perr /\ pline' = pline /\ ret' = ret
       ]_vars
  /\ [][ (/\ pc = "fp_hdr" /\ Uncounted(ent')
          /\ si.w > 0 /\ si.h > 0 /\ si.shade /= 0)
         => /\ pc' = "fp_body"
            /\ si' = [si EXCEPT !.vcount = 0, !.tcount = 0]
            /\ perr' = perr /\ pline' = pline /\ ret' = ret
       ]_vars
  /\ [](pc \in SigPcs \cup HeaderPcs \cup ScanPcs \cup {"main_fp_done"}
          => perr \notin InterpreterErrors)
  /\ []((pc = "main_fp_done" /\ ret = 1)
          => /\ si.vcount = CountIn(script, {E_Op(K_v)})
             /\ si.tcount = CountIn(script, {E_Op(K_t)})
             /\ perr = ERR_OK)

C21_Witness ==
  /\ pc = "main_fp_done" /\ ret = 1 /\ perr = ERR_OK
  /\ si.vcount = 1 /\ si.tcount = 0
  /\ CountIn(script, {E_Num(<<"1", "x">>)}) = 1
  /\ CountIn(script, {E_Op(K_v)}) = 1

\* the hexadecimal digits in the order of their values
HexLower == <<"0", "1", "2", "3", "4", "5", "6", "7", "8", "9",
              "a", "b", "c", "d", "e", "f">>

HexUpper == <<"0", "1", "2", "3", "4", "5", "6", "7", "8", "9",
              "A", "B", "C", "D", "E", "F">>

IsHexChar(c) == \E k \in 1 .. 16 : HexLower[k] = c \/ HexUpper[k] = c

HexCharValue(c) == (CHOOSE k \in 1 .. 16 : HexLower[k] = c \/ HexUpper[k] = c) - 1

\* the number a string of hexadecimal digits denotes
RECURSIVE HexNumber(_)
HexNumber(v) ==
  IF v = <<>> THEN 0
  ELSE 16 * HexNumber(SubSeq(v, 1, Len(v) - 1)) + HexCharValue(v[Len(v)])

\* a curly string without a prefix
PlainCurly(e) ==
  e.status = SNENTITY_STRING /\ e.str_type = SNSTRING_CURLY /\ e.pKey = <<>>

\* a color literal: a curly string without a prefix whose payload is six
\* hexadecimal digits
ColorLiteral(e) ==
  /\ PlainCurly(e)
  /\ Len(e.pValue) = 6
  /\ \A k \in 1 .. Len(e.pValue) : IsHexChar(e.pValue[k])

\* second_pass pushes the node and goes on
Pushes(node) ==
  /\ pc' = "sp_loop"
  /\ perr' = ERR_OK /\ ret' = ret
  /\ st_count' = st_count + 1
  /\ st'[st_count] = node
  /\ \A k \in 0 .. st_count - 1 : st'[k] = st[k]
  /\ UNCHANGED <<m_vwrite, m_twrite, m_pv, m_pt>>

\* C22, as stated: a string entity is pushed as a color with the value of
\* its payload in hexadecimal exactly when it is a color literal, a curly
\* string without a prefix that is no color literal fails with ERR_RGBL, and
\* a numeric entity is pushed with the value parseInt gives it or fails with
\* ERR_NUMRL when parseInt rejects it.
C22_AsStated ==
  [][ pc = "sp_loop" =>
        /\ Reading.status = SNENTITY_STRING =>
             /\ IF ColorLiteral(Reading)
                THEN Pushes([ntype |-> NTYPE_RGB, val |-> HexNumber(Reading.pValue)])
                ELSE pc' = "main_sp_done" /\ ret' = 0 /\ UNCHANGED <<st, st_count>>
             /\ (PlainCurly(Reading) /\ ~ColorLiteral(Reading)) => FailsWith(ERR_RGBL)
        /\ Reading.status = SNENTITY_NUMERIC =>
             IF parseInt(Reading.pKey).ok
             THEN Pushes([ntype |-> NTYPE_INT, val |-> parseInt(Reading.pKey).v])
             ELSE FailsWith(ERR_NUMRL)
    ]_vars

\* C22, amended: while the stack holds fewer than MAX_ISTACK values, a string
\* entity is pushed as a color with the value of its payload in hexadecimal,
\* a value in 0 .. 0xFFFFFF, exactly when it is a color literal, a curly
\* string without a prefix that is no color literal fails with ERR_RGBL, and
\* a numeric entity is pushed with the value parseInt gives it or fails with
\* ERR_NUMRL when parseInt rejects it.  When the stack holds MAX_ISTACK
\* values, a curly string without a prefix and a numeric entity fail with
\* ERR_OVER whatever they hold, and nothing is pushed.
C22_Literals ==
  [][ pc = "sp_loop" =>
        /\ (Reading.status = SNENTITY_STRING /\ st_count < 32) =>
             /\ IF ColorLiteral(Reading)
                THEN Pushes([ntype |-> NTYPE_RGB, val |-> HexNumber(Reading.pValue)])
                ELSE pc' = "main_sp_done" /\ ret' = 0 /\ UNCHANGED <<st, st_count>>
             /\ ColorLiteral(Reading) =>
                  (HexNumber(Reading.pValue) >= 0 /\ HexNumber(Reading.pValue) <= 16777215)
             /\ (PlainCurly(Reading) /\ ~ColorLiteral(Reading)) => FailsWith(ERR_RGBL)
        /\ (Reading.status = SNENTITY_NUMERIC /\ st_count < 32) =>
             IF parseInt(Reading.pKey).ok
             THEN Pushes([ntype |-> NTYPE_INT, val |-> parseInt(Reading.pKey).v])
             ELSE FailsWith(ERR_NUMRL)
        /\ (st_count = 32 /\ (PlainCurly(Reading) \/ Reading.status = SNENTITY_NUMERIC))
             => FailsWith(ERR_OVER)
    ]_vars

C22_Witness ==
  /\ pc = "sp_loop"
  /\ ent = E_Str(SNSTRING_CURLY, <<>>, <<"0", "0", "A", "c", "9", "F">>)
  /\ st_count = 32
  /\ st[31] = [ntype |-> NTYPE_RGB, val |-> 44191]
  /\ st[30] = [ntype |-> NTYPE_INT, val |-> 0]

\* C23: in second_pass an operation with a key other than v and t fails
\* with ERR_BADOP; a string that is not a curly string without a prefix
\* fails with ERR_ETYPE; an entity of positive status that is no string, no
\* numeric, no operation and not of the metacommand family fails with
\* ERR_ETYPE; each of them with the line number of the parser.  An entity of
\* the metacommand family is skipped: the stack, the store, the error and
\* the status stay as they are.
C23_Unsupported ==
  [][ pc = "sp_loop" =>
        /\ (Reading.status = SNENTITY_OPERATION /\ Reading.pKey \notin {K_v, K_t})
             => FailsWith(ERR_BADOP) /\ pline' = pos + 1
        /\ (Reading.status = SNENTITY_STRING /\ ~PlainCurly(Reading))
             => FailsWith(ERR_ETYPE) /\ pline' = pos + 1
        /\ (/\ Reading.status > 0
            /\ Reading.status \notin {SNENTITY_STRING, SNENTITY_NUMERIC, SNENTITY_OPERATION}
            /\ Reading.status \notin MetaFamily)
             => FailsWith(ERR_ETYPE) /\ pline' = pos + 1
        /\ Reading.status \in MetaFamily
             => /\ pc' = "sp_loop" /\ pos' = pos + 1
                /\ UNCHANGED <<st, st_count, m_init, m_vcount, m_tcount, m_vwrite,
                               m_twrite, m_ready, m_pv, m_pt, perr, pline, ret>>
    ]_vars

C23_Witness ==
  /\ pc = "main_sp_done" /\ ret = 0 /\ perr = ERR_ETYPE
  /\ ent = E_Str(SNSTRING_CURLY, <<"x">>, <<"f", "f", "0", "0", "0", "0">>)
  /\ st_count = 1
  /\ pline = pos /\ pos = 14

\* first_pass fails at the entity just read with the error code
HeaderFails(code) ==
  /\ pc' = "main_fp_done" /\ ret' = 0
  /\ perr' = code
  /\ pline' = pos'
  /\ si' = ZeroInfo

\* C24: in the header loop a metacommand fails with ERR_HEADC when the
\* entity after its begin-metacommand is not a metacommand token, when that
\* token is neither dim nor shade, and when the entity after its required
\* arguments (the two arguments of dim, the one argument of shade) is not
\* an end-metacommand, a further argument included.
C24_HeaderCommand ==
  /\ [][ (/\ pc = "fp_cmd" /\ ent'.status >= 0
          /\ \/ ent'.status /= SNENTITY_META_TOKEN
             \/ ent'.pKey \notin {K_dim, K_shade})
         => HeaderFails(ERR_HEADC)
       ]_vars
  /\ [][ (pc = "fp_endmeta" /\ ent'.status >= 0 /\ ent'.status /= SNENTITY_END_META)
         => HeaderFails(ERR_HEADC)
       ]_vars
  /\ [](pc = "fp_cmd" => ent = E_BEGIN /\ pos = ScriptLen(script))
  /\ [](pc = "fp_endmeta" =>
          /\ pos = ScriptLen(script)
          /\ ent.status = SNENTITY_META_TOKEN
          /\ \/ /\ EntityAt(script, pos - 3) = E_BEGIN
                /\ EntityAt(script, pos - 2) = E_Tok(K_dim)
                /\ EntityAt(script, pos - 1).status = SNENTITY_META_TOKEN
             \/ /\ EntityAt(script, pos - 2) = E_BEGIN
                /\ EntityAt(script, pos - 1) = E_Tok(K_shade))

C24_Witness ==
  /\ pc = "main_fp_done" /\ ret = 0 /\ perr = ERR_HEADC
  /\ ent = E_Tok(<<"2">>)
  /\ pos = 8 /\ pline = 8
  /\ EntityAt(script, 5) = E_Tok(K_dim)
  /\ EntityAt(script, 6) = E_Tok(<<"1", "6", "3", "8", "4">>)
  /\ EntityAt(script, 7) = E_Tok(<<"1">>)

\* the position in the script of the n-th entity e from position p on
RECURSIVE NthFrom(_, _, _, _)
NthFrom(s, e, n, p) ==
  IF EntityAt(s, p) = e
  THEN (IF n = 1 THEN p ELSE NthFrom(s, e, n - 1, p + 1))
  ELSE NthFrom(s, e, n, p + 1)

\* the value of a number of one digit
OneDigit(e) == CHOOSE d \in 0 .. 9 : e.pKey = <<Digits[d + 1]>>

\* the operands written in the script before the operation at position p:
\* three numbers, then a color or none
WrittenBefore(s, p) ==
  LET q == IF EntityAt(s, p - 1).status = SNENTITY_STRING THEN p - 1 ELSE p IN
  [a |-> OneDigit(EntityAt(s, q - 3)),
   b |-> OneDigit(EntityAt(s, q - 2)),
   c |-> OneDigit(EntityAt(s, q - 1)),
   u |-> IF q < p THEN HexNumber(EntityAt(s, p - 1).pValue) ELSE 0]

\* the script of the example: the flat mode, three vertices and a triangle
ExampleScript ==
  << [e |-> E_BEGIN, n |-> 1], [e |-> E_Tok(K_dhrender), n |-> 1], [e |-> E_END, n |-> 1],
     [e |-> E_BEGIN, n |-> 1], [e |-> E_Tok(K_dim), n |-> 1], [e |-> E_Tok(<<"2">>), n |-> 2],
     [e |-> E_END, n |-> 1],
     [e |-> E_BEGIN, n |-> 1], [e |-> E_Tok(K_shade), n |-> 1],
     [e |-> E_Tok(K_triangle), n |-> 1], [e |-> E_END, n |-> 1],
     [e |-> E_Num(<<"0">>), n |-> 3], [e |-> E_OpV, n |-> 1],
     [e |-> E_Num(<<"1">>), n |-> 1], [e |-> E_Num(<<"0">>), n |-> 2], [e |-> E_OpV, n |-> 1],
     [e |-> E_Num(<<"0">>), n |-> 1], [e |-> E_Num(<<"1">>), n |-> 1],
     [e |-> E_Num(<<"0">>), n |-> 1], [e |-> E_OpV, n |-> 1],
     [e |-> E_Num(<<"0">>), n |-> 1], [e |-> E_Num(<<"1">>), n |-> 1],
     [e |-> E_Num(<<"2">>), n |-> 1], [e |-> E_Col, n |-> 1], [e |-> E_OpT, n |-> 1],
     [e |-> E_EOF, n |-> 1] >>

\* C25: the index of a declaration is its place in the text and the store
\* only grows.  Once the store is allocated, the vertex record at index n is
\* what the script writes before its (n+1)-th v operation and the triangle
\* record at index n what it writes before its (n+1)-th t operation, the
\* color 0 where the operation has none; the records from the cursor on are
\* still zero; no step changes a record below a cursor or lowers a cursor;
\* and the script of the example compiles to the vertices (0,0,0), (1,0,0),
\* (0,1,0) with the color 0 and the triangle (0,1,2) with the color 0xFF0000
\* whenever the store has been allocated for it.
C25_TextualOrder ==
  /\ [](m_init /= 0 =>
          /\ \A n \in 0 .. m_vwrite - 1 :
               m_pv[n] = WrittenBefore(script, NthFrom(script, E_OpV, n + 1, 1))
          /\ \A n \in 0 .. m_twrite - 1 :
               m_pt[n] = WrittenBefore(script, NthFrom(script, E_OpT, n + 1, 1))
          /\ \A n \in m_vwrite .. m_vcount - 1 : m_pv[n] = ZeroVT
          /\ \A n \in m_twrite .. m_tcount - 1 : m_pt[n] = ZeroVT)
  /\ [][ m_init /= 0 =>
           /\ m_vwrite' >= m_vwrite /\ m_twrite' >= m_twrite
           /\ \A n \in 0 .. m_vwrite - 1 : m_pv'[n] = m_pv[n]
           /\ \A n \in 0 .. m_twrite - 1 : m_pt'[n] = m_pt[n]
       ]_vars
  /\ []((script = ExampleScript /\ pc = "exit" /\ m_init /= 0) =>
          /\ exitcode = 0
          /\ m_pv = [n \in 0 .. 2 |->
                       [a |-> IF n = 1 THEN 1 ELSE 0, b |-> IF n = 2 THEN 1 ELSE 0,
                        c |-> 0, u |-> 0]]
          /\ m_pt = [n \in 0 .. 0 |-> [a |-> 0, b |-> 1, c |-> 2, u |-> 16711680]])

C25_Witness ==
  /\ pc = "exit" /\ exitcode = 0
  /\ script = ExampleScript
  /\ m_vwrite = 3 /\ m_twrite = 1
  /\ m_pv[1] = [a |-> 1, b |-> 0, c |-> 0, u |-> 0]
  /\ m_pt[0] = [a |-> 0, b |-> 1, c |-> 2, u |-> 16711680]

\* C26: once begin_data has run, each cursor is between 0 and its capacity;
\* in every state check_decl() returns true exactly when begin_data has run
\* and both cursors stand at their capacities, so that it returns false
\* before begin_data and the cached flag m_ready is never set while a cursor
\* is below its capacity; and once check_decl() returns true it returns
\* true in every later state.
C26_Complete ==
  /\ [](m_init /= 0 =>
          /\ 0 <= m_vwrite /\ m_vwrite <= m_vcount
          /\ 0 <= m_twrite /\ m_twrite <= m_tcount)
  /\ [](CheckDecl <=> (m_init /= 0 /\ m_vwrite = m_vcount /\ m_twrite = m_tcount))
  /\ [](m_init = 0 => ~CheckDecl)
  /\ [](m_ready /= 0 => (m_init /= 0 /\ m_vwrite = m_vcount /\ m_twrite = m_tcount))
  /\ [][CheckDecl => CheckDecl']_vars
  /\ [][m_ready /= 0 => m_ready' /= 0]_vars

C26_Witness ==
  /\ pc = "sp_loop"
  /\ m_init /= 0 /\ m_ready = 0
  /\ m_vcount = 2 /\ m_vwrite = 2
  /\ m_tcount = 1 /\ m_twrite = 0
  /\ ~CheckDecl

\* the arrays and the cursors of the store
storeData == <<m_vcount, m_tcount, m_vwrite, m_twrite, m_pv, m_pt>>

\* C27: begin_data is called at most once, after first_pass has succeeded
\* and the source has been rewound, with the vcount and tcount first_pass
\* returned, which are the numbers of v and t operations of the script;
\* the store is written by begin_data and, after it, by the declarations
\* of second_pass only; no write happens before begin_data or after
\* second_pass has returned.
C27_Lifecycle ==
  /\ [](pc = "main_begin" =>
          /\ m_init = 0
          /\ ret = 1 /\ perr = ERR_OK /\ pos = 0
          /\ EntityAt(script, ScriptLen(script)) = E_EOF
          /\ si.vcount = CountIn(script, {E_OpV})
          /\ si.tcount = CountIn(script, {E_OpT}))
  /\ [][ m_init' /= m_init
         => /\ pc = "main_begin" /\ pc' = "sp_begin"
            /\ m_init = 0 /\ m_init' = 1
            /\ m_vcount' = si.vcount /\ m_tcount' = si.tcount
            /\ m_vwrite' = 0 /\ m_twrite' = 0
       ]_vars
  /\ [][ m_init /= 0 => m_init' = m_init ]_vars
  /\ [][ storeData' /= storeData
         => \/ pc = "main_begin"
            \/ /\ pc = "sp_loop" /\ m_init /= 0
               /\ m_vcount' = m_vcount /\ m_tcount' = m_tcount
       ]_vars
  /\ [][ (dv_ok' /= dv_ok \/ dt_ok' /= dt_ok) => (pc = "sp_loop" /\ m_init /= 0) ]_vars
  /\ [](m_init = 0 => storeData = <<0, 0, 0, 0, NoArray, NoArray>> /\ dv_ok = 0 /\ dt_ok = 0)
  /\ []((pc = "exit" /\ ret = 0 /\ pos = ScriptLen(script) /\ m_init = 0)
          => exitcode = 1)

C27_Witness ==
  /\ pc = "exit" /\ exitcode = 1
  /\ m_init /= 0
  /\ perr = ERR_SYNTX
  /\ m_vcount = 2 /\ m_vwrite = 1
  /\ m_tcount = 1 /\ m_twrite = 0

\* C28: no script drives the program into an abort.  begin_data is called
\* with the store not yet allocated and with counts in 0 .. 16384,
\* second_pass with one of the two shading modes, the declarations after the
\* allocation with a Z coordinate that is not negative, indices in
\* 0 .. m_vcount-1 and a color in 0 .. 0xFFFFFF; so every vertex written has
\* such a Z and color and every triangle written such indices and color.
C28_NoAbort ==
  /\ pc /= "abort"
  /\ pc = "main_begin" =>
       /\ m_init = 0
       /\ si.vcount >= 0 /\ si.vcount <= 16384
       /\ si.tcount >= 0 /\ si.tcount <= 16384
  /\ pc = "sp_begin" => si.shade \in {SHADE_FLAT, SHADE_INTER}
  /\ pc = "sp_loop" => m_init /= 0
  /\ m_init /= 0 =>
       /\ m_vcount >= 0 /\ m_vcount <= 16384
       /\ m_tcount >= 0 /\ m_tcount <= 16384
       /\ \A n \in 0 .. m_vwrite - 1 :
            m_pv[n].c >= 0 /\ m_pv[n].u >= 0 /\ m_pv[n].u <= 16777215
       /\ \A n \in 0 .. m_twrite - 1 :
            /\ m_pt[n].a >= 0 /\ m_pt[n].a < m_vcount
            /\ m_pt[n].b >= 0 /\ m_pt[n].b < m_vcount
            /\ m_pt[n].c >= 0 /\ m_pt[n].c < m_vcount
            /\ m_pt[n].u >= 0 /\ m_pt[n].u <= 16777215
  /\ \A k \in 0 .. st_count - 1 :
       st[k].ntype = NTYPE_RGB => (st[k].val >= 0 /\ st[k].val <= 16777215)

C28_Witness ==
  /\ pc = "main_sp_done" /\ ret = 0 /\ perr = ERR_VIDX
  /\ ent = E_OpT
  /\ st_count = 3
  /\ st[0].val = -1 /\ st[1].val = 0 /\ st[2].val = 1
  /\ m_vcount = 0 /\ m_twrite = 0

\* the line number a pass reports for an error at the entity read last: the
\* count of the parser, 0 when the count is negative or LONG_MAX
CountReported == IF linemode = "count" THEN pos ELSE 0

\* a pass has returned
PassDone == pc \in {"main_fp_done", "main_sp_done"}

\* the errors that the claim gives no line: ERR_NOSIG, ERR_NODIM, ERR_NOSHA,
\* ERR_STREM, ERR_SYNC at the end of the pass, a failed rewind
NoLineError ==
  \/ perr \in {ERR_NOSIG, ERR_NODIM, ERR_NOSHA, ERR_STREM, SNERR_IOERR}
  \/ (perr = ERR_SYNC /\ ent = E_EOF)

\* C29, as stated: the line number a pass reports is 0 on success, 0 for
\* the errors without a line and for a missing end-of-file marker, and for
\* every other error the count of the parser at the failing entity, 0 when
\* the count is negative or LONG_MAX.
C29_AsStated ==
  PassDone =>
    IF ret /= 0 THEN pline = 0
    ELSE IF NoLineError \/ perr = SNERR_EOF THEN pline = 0
    ELSE pline = CountReported

\* C29, amended: the line number a pass reports is 0 on success and 0 for
\* ERR_NOSIG, ERR_NODIM, ERR_NOSHA, ERR_STREM, ERR_SYNC at the end of the
\* pass and a failed rewind; for every other error, the negative status of
\* the parser for a missing end-of-file marker included, it is the count of
\* the parser at the failing entity, 0 when the count is negative or
\* LONG_MAX.  The diagnostic main prints carries the same number.
C29_LineNumber ==
  /\ PassDone =>
       IF ret /= 0 THEN pline = 0 /\ perr = ERR_OK
       ELSE IF NoLineError THEN pline = 0
       ELSE pline = CountReported /\ pos > 0
  /\ pline >= 0 /\ pline < LONG_MAX
  /\ (pc = "exit" /\ diag /= <<>> /\ diag[1].kind = "pass") =>
       (diag[1].line = pline /\ diag[1].err = perr)

C29_Witness ==
  /\ pc = "main_fp_done" /\ ret = 0
  /\ perr = SNERR_EOF
  /\ linemode = "count"
  /\ pline = 13 /\ pos = 13
  /\ EntityAt(script, 12) = E_END

\* C30: main returns 0 or 1.  It returns 0 exactly when nothing failed: no
\* diagnostic was printed, both passes returned non-zero and second_pass
\* read the script to its end-of-input marker with the store allocated.  It
\* returns 1 with one diagnostic when the argument count is wrong, the
\* script does not open, a pass fails or the rewind fails.  The diagnostic
\* of a failed pass carries the error of the pass, and the line number the
\* pass reported when that number is greater than 0, no line number
\* otherwise.
C30_ExitCode ==
  /\ [](pc /= "exit" => (exitcode = -1 /\ diag = <<>>))
  /\ [](pc = "exit" =>
          /\ exitcode \in {0, 1}
          /\ exitcode = 0 <=> diag = <<>>
          /\ exitcode = 0 <=> (ret /= 0 /\ m_init /= 0 /\ pos = ScriptLen(script)
                                 /\ ent = E_EOF /\ perr = ERR_OK)
          /\ exitcode = 1 =>
               /\ Len(diag) = 1 /\ ret = 0
               /\ diag[1].kind \in {"args", "open", "pass", "rewind"}
               /\ diag[1].kind = "pass" =>
                    /\ diag[1].err = perr /\ perr /= ERR_OK
                    /\ pline > 0 => diag[1].line = pline
                    /\ pline <= 0 => diag[1].line = 0
               /\ diag[1].kind /= "pass" => diag[1].line = 0)
  /\ [][ (pc \in {"main_fp_done", "main_sp_done"} /\ ret = 0)
         => /\ pc' = "exit" /\ exitcode' = 1
            /\ diag' = <<[kind |-> "pass", err |-> perr,
                          line |-> IF pline > 0 THEN pline ELSE 0]>>
       ]_vars
  /\ [][ (pc = "main_sp_done" /\ ret /= 0) => pc' = "main_check" ]_vars
  /\ [][ pc = "main_check" => (pc' = "exit" /\ exitcode' = 0) ]_vars

C30_Witness ==
  /\ pc = "exit" /\ exitcode = 1
  /\ diag = <<[kind |-> "pass", err |-> ERR_UNDER, line |-> 0]>>
  /\ linemode = "max"
  /\ m_init /= 0

\* the positions of the program while second_pass holds its stack
StackPcs == {"sp_loop", "sp_end", "main_sp_done"}

\* C31: while second_pass runs and when it returns, every slot of the stack
\* below st_count holds an Integer or an RgbColor and every slot from
\* st_count on is undefined; a v or t operation that succeeds makes exactly
\* the slots of its operands undefined and leaves the slots below them as
\* they were.
C31_StackSlots ==
  /\ [](pc \in StackPcs =>
          /\ \A k \in 0 .. st_count - 1 : st[k].ntype \in {NTYPE_INT, NTYPE_RGB}
          /\ \A k \in st_count .. MAX_ISTACK - 1 : st[k].ntype = NTYPE_UNDEF)
  /\ [][ (pc = "sp_loop" /\ pc' = "sp_loop" /\ Reading \in {E_OpV, E_OpT})
         => /\ st_count' < st_count
            /\ \A k \in st_count' .. st_count - 1 :
                 st[k].ntype /= NTYPE_UNDEF /\ st'[k].ntype = NTYPE_UNDEF
            /\ \A k \in 0 .. st_count' - 1 : st'[k] = st[k]
            /\ \A k \in st_count .. MAX_ISTACK - 1 : st'[k] = st[k]
       ]_vars

C31_Witness ==
  /\ pc = "sp_loop"
  /\ ent = E_OpV
  /\ si.shade = SHADE_FLAT
  /\ st_count = 1
  /\ st[0] = [ntype |-> NTYPE_INT, val |-> -1]
  /\ st[1].ntype = NTYPE_UNDEF /\ st[3].ntype = NTYPE_UNDEF
  /\ m_vwrite = 1

\* C32: with MAX_ISTACK values on the stack, a numeric entity that parseInt
\* rejects fails with ERR_OVER and not with ERR_NUMRL, a curly string without
\* a prefix whose payload is no color fails with ERR_OVER and not with
\* ERR_RGBL, and a string that is not a curly string without a prefix fails
\* with ERR_ETYPE, as it does at any other depth.
C32_CapacityFirst ==
  [][ (pc = "sp_loop" /\ st_count = MAX_ISTACK) =>
        /\ (Reading.status = SNENTITY_NUMERIC /\ ~parseInt(Reading.pKey).ok)
             => FailsWith(ERR_OVER)
        /\ (PlainCurly(Reading) /\ ~ColorLiteral(Reading))
             => FailsWith(ERR_OVER)
        /\ (Reading.status = SNENTITY_STRING /\ ~PlainCurly(Reading))
             => FailsWith(ERR_ETYPE)
    ]_vars

C32_Witness ==
  /\ pc = "main_sp_done" /\ ret = 0 /\ perr = ERR_OVER
  /\ ent = E_Str(SNSTRING_CURLY, <<>>, <<"0", "0", "0", "0", "0", "G">>)
  /\ st_count = MAX_ISTACK
  /\ st[MAX_ISTACK - 1] = [ntype |-> NTYPE_INT, val |-> 0]

\* C33: when first_pass has returned, its status is zero exactly when the
\* error code is not zero; on success the error code is ERR_OK and the line
\* is 0; on failure the error code is not zero and w, h, shade, vcount and
\* tcount of the script information are all 0.
C33_FirstPassResult ==
  pc = "main_fp_done" =>
    /\ (ret = 0) <=> (perr /= 0)
    /\ ret /= 0 => (perr = ERR_OK /\ pline = 0)
    /\ ret = 0 =>
         /\ perr /= 0
         /\ si.w = 0 /\ si.h = 0 /\ si.shade = 0
         /\ si.vcount = 0 /\ si.tcount = 0

C33_Witness ==
  /\ pc = "main_fp_done" /\ ret = 0 /\ perr = SNERR_TRAILER
  /\ CountIn(BodyOf(script), {E_OpV}) = 1
  /\ CountIn(BodyOf(script), {E_OpT}) = 1
  /\ si = ZeroInfo

\* the positions of the program from the allocation of the store on
AfterFirstPcs ==
  {"main_begin", "sp_begin", "sp_loop", "sp_end", "main_sp_done", "main_check"}

\* C34: the store is allocated and second_pass is entered only after
\* first_pass has returned success, having read the whole script up to its
\* end-of-input marker; when first_pass has failed, main reports the error
\* and the line of first_pass and exits with status 1, the store is not
\* allocated and the stack of second_pass is never set up, whatever the
\* entities before the failing one are.
C34_PassOrder ==
  /\ []((pc \in AfterFirstPcs \/ m_init /= 0) =>
          /\ si.w > 0 /\ si.h > 0 /\ si.shade /= 0
          /\ EntityAt(script, ScriptLen(script)) = E_EOF)
  /\ [][ (pc' \in AfterFirstPcs /\ pc \notin AfterFirstPcs) =>
           (pc = "main_rewind" /\ ret /= 0 /\ perr = ERR_OK) ]_vars
  /\ [][ pc' = "main_rewind" => (pc = "main_fp_done" /\ ret /= 0 /\ perr = ERR_OK) ]_vars
  /\ [][ (pc = "main_fp_done" /\ ret = 0) =>
           /\ pc' = "exit" /\ exitcode' = 1
           /\ diag' = <<[kind |-> "pass", err |-> perr, line |-> pline]>>
           /\ m_init' = 0
           /\ UNCHANGED <<st, st_count, pos>> ]_vars

C34_Witness ==
  /\ pc = "exit" /\ exitcode = 1
  /\ diag = <<[kind |-> "pass", err |-> ERR_STRAY, line |-> pos]>>
  /\ pos = ScriptLen(script)
  /\ ent = E_BEGIN
  /\ EntityAt(script, pos - 1) = E_OpV
  /\ HeaderLen(script) = pos - 2
  /\ m_init = 0 /\ st_count = 0

\* C35: a v or t operation that fails leaves the depth and the contents of
\* the stack, both write cursors and both record sequences as they are.  One
\* that succeeds lowers the depth by its arity (v: 4 in interpolated mode, 3
\* in flat mode; t: 4 in flat mode, 3 in interpolated mode), raises its own
\* cursor by one (m_vwrite for v, m_twrite for t), changes no record of its
\* sequence but the one at the old cursor, and leaves the other cursor and
\* the other sequence as they are.
C35_OperationFrame ==
  [][ (pc = "sp_loop" /\ Reading \in {E_OpV, E_OpT}) =>
        IF pc' = "sp_loop"
        THEN /\ st_count' = st_count - (IF (Reading = E_OpV) <=> (si.shade = SHADE_INTER)
                                        THEN 4 ELSE 3)
             /\ st_count' >= 0
             /\ IF Reading = E_OpV
                THEN /\ m_vwrite' = m_vwrite + 1
                     /\ \A k \in DOMAIN m_pv : k /= m_vwrite => m_pv'[k] = m_pv[k]
                     /\ UNCHANGED <<m_twrite, m_pt>>
                ELSE /\ m_twrite' = m_twrite + 1
                     /\ \A k \in DOMAIN m_pt : k /= m_twrite => m_pt'[k] = m_pt[k]
                     /\ UNCHANGED <<m_vwrite, m_pv>>
        ELSE /\ pc' = "main_sp_done" /\ ret' = 0
             /\ perr' \in {ERR_UNDER, ERR_SYNTX, ERR_ZNEG, ERR_VIDX, ERR_SYNC}
             /\ UNCHANGED <<st, st_count, m_vwrite, m_twrite, m_pv, m_pt>>
    ]_vars

C35_Witness ==
  /\ pc = "main_sp_done" /\ ret = 0 /\ perr = ERR_VIDX
  /\ ent = E_OpT
  /\ si.shade = SHADE_INTER
  /\ st_count = 3 /\ st[2].val = -1
  /\ m_vwrite = 0 /\ m_twrite = 0

\* the positions of the program at which a pass reads the next entity
ReadPcs == SigPcs \cup HeaderPcs \cup {"fp_body", "sp_loop"}

\* C36: every run of the program on a script that ends with the
\* end-of-input marker or with an entity of negative status comes to its
\* exit.  Each iteration of a pass reads exactly one entity; a pass reads no
\* further entity after the first entity of status zero or less and after
\* its first error; and at the exit there is either status 0 and no
\* diagnostic or status 1 and exactly one diagnostic, which for a failed
\* pass holds one error code and one line.
C36_Terminates ==
  /\ <>(pc = "exit")
  /\ [][ (pc \in ReadPcs) => (pos' = pos + 1 /\ ent' = EntityAt(script', pos')) ]_vars
  /\ [][ (pos' /= pos) => (pc \in ReadPcs \/ pos' = 0) ]_vars
  /\ [][ (pc \in ReadPcs /\ (ent'.status <= 0 \/ ret' = 0)) => pc' \notin ReadPcs ]_vars
  /\ [][ (pc \in ReadPcs /\ ret' = 0) =>
           (pc' \in {"main_fp_done", "main_sp_done"} /\ perr' /= ERR_OK) ]_vars
  /\ []((pc \in SigPcs \cup HeaderPcs \cup {"fp_body"} /\ script /= <<>>)
          => EntityAt(script, ScriptLen(script)).status > 0)
  /\ [](pc = "exit" =>
          \/ exitcode = 0 /\ diag = <<>> /\ ret /= 0 /\ perr = ERR_OK
          \/ /\ exitcode = 1 /\ Len(diag) = 1
             /\ diag[1].kind = "pass" => (diag[1].err = perr /\ perr /= ERR_OK /\ diag[1].line >= 0))

C36_Witness ==
  /\ pc = "exit" /\ exitcode = 1
  /\ diag = <<[kind |-> "pass", err |-> SNERR_EOF, line |-> pos]>>
  /\ ent = E_ERR
  /\ pos = ScriptLen(script)
  /\ BodyLen(script) = 2
  /\ m_init = 0

\* a token that writes an integer: an optional sign, then one or more
\* decimal digits that write a number of at most 2147483647
IntegerToken(t) ==
  LET digs == TokDigits(t) IN
  /\ Len(digs) >= 1
  /\ \A k \in 1 .. Len(digs) : digs[k] \in DigitChars
  /\ MagnitudeFits(digs)

\* C37: where first_pass reads an argument of dim or of shade, an entity of
\* status zero or more that is no metacommand token fails with ERR_HEADS; an
\* argument of dim that is a token but writes no integer fails with
\* ERR_HEADS, the token 2147483648 of digits only included, which does not
\* fail with ERR_DIM; and when the second argument of dim fails in any way,
\* the first having been accepted, first_pass returns 0 with an error code
\* and with the width cleared.
C37_HeaderArguments ==
  [][ (pc \in {"fp_dim", "fp_shade"}) =>
        /\ (ent'.status >= 0 /\ ent'.status /= SNENTITY_META_TOKEN)
             => HeaderFails(ERR_HEADS)
        /\ (pc = "fp_dim" /\ ent'.status = SNENTITY_META_TOKEN /\ ~IntegerToken(ent'.pKey))
             => HeaderFails(ERR_HEADS)
        /\ (pc = "fp_dim"
            /\ ent' = E_Tok(<<"2", "1", "4", "7", "4", "8", "3", "6", "4", "8">>))
             => (perr' = ERR_HEADS /\ perr' /= ERR_DIM /\ ret' = 0)
        /\ (pc = "fp_dim" /\ fp_i = 1 /\ pc' /= "fp_endmeta")
             => /\ si.w > 0 /\ si.h = 0
                /\ pc' = "main_fp_done" /\ ret' = 0
                /\ perr' /= ERR_OK
                /\ si' = ZeroInfo
    ]_vars

C37_Witness ==
  /\ pc = "main_fp_done" /\ ret = 0 /\ perr = ERR_HEADS
  /\ ent = E_Tok(<<"2", "1", "4", "7", "4", "8", "3", "6", "4", "8">>)
  /\ fp_i = 1
  /\ EntityAt(script, pos - 1) = E_Tok(<<"1", "6", "3", "8", "4">>)
  /\ EntityAt(script, pos - 2) = E_Tok(K_dim)
  /\ si = ZeroInfo

====
